---- MODULE Spec2Model ----
(***************************************************************************)
(* Model of the Benin routing core (src/core.py): the bidirectional        *)
(* Dijkstra search with node exclusion, the path metrics pass and the      *)
(* request pipeline of calculate_route.                                    *)
(*                                                                         *)
(* A graph is a record [nodes, data, inserted]: data[<<u, v>>] is the      *)
(* sequence of parallel edge variants of the directed step u -> v (empty:  *)
(* no edge), in the order networkx keeps them (edge key order).  A variant *)
(* is a record [length, travel_time]; a field the variant does not carry   *)
(* is Missing.  inserted[<<u, v>>] is the position at which the step       *)
(* u -> v was first added to the graph: networkx yields the neighbours of  *)
(* u, and the predecessors of v, in the order their steps were added.      *)
(***************************************************************************)
EXTENDS Integers, Sequences, FiniteSets, TLC

\* float('inf'): larger than every finite path cost of the model.
Inf == 1000000
\* None as a parent / meeting node (node identifiers are positive integers).
NoNode == 0
\* A dict key that is absent from an edge variant.
Missing == -1
\* None as a returned path (a real path is never empty).
NonePath == << >>

\* Largest finite edge weight drawn for the graphs of the model.
MaxW == 2

\* Nodes of the graphs of the model, and a node identifier no graph holds.
Nodes == {1, 2, 3, 4}
Absent == 1 + Cardinality(Nodes)

----------------------------------------------------------------------------
(* Inputs: the graphs, weight selectors and exclusion sets drawn by Init.  *)

Variant(l, t) == [length |-> l, travel_time |-> t]

\* Candidate directed steps: two routes 1->2->4 and 1->3->4, a chord 2->3
\* and a way back 4->1 (so that cycles through a node exist).
UpperPairs == {<<1, 2>>, <<2, 4>>}
LowerPairs == {<<1, 3>>, <<3, 4>>}
OtherPairs == {<<2, 3>>, <<4, 1>>}
Pairs == UpperPairs \cup LowerPairs \cup OtherPairs

NoEdge == << >>
\* a short but slow road, a long but fast road
ShortRoad == << Variant(1, MaxW) >>
LongRoad == << Variant(MaxW, 1) >>
\* two parallel roads: the faster one is the longer one
ParallelRoads == << Variant(MaxW, 1), Variant(1, MaxW) >>
\* a road whose travel_time was never annotated
UntimedRoad == << Variant(1, Missing) >>

EdgeDataOf(p) ==
    IF p \in UpperPairs THEN {NoEdge, ShortRoad, LongRoad}
    ELSE IF p \in LowerPairs THEN {NoEdge, ShortRoad, ParallelRoads}
    ELSE {NoEdge, LongRoad, UntimedRoad}

AllPairs == Nodes \X Nodes

\* Orders in which the steps of a graph were added: by ascending (u, v), and
\* the other way round.
AscendingOrder(nodes) ==
    [p \in nodes \X nodes |-> p[1] * (Cardinality(nodes) + 1) + p[2]]
DescendingOrder(nodes) ==
    [p \in nodes \X nodes |->
        (Cardinality(nodes) + 1) * (Cardinality(nodes) + 1) - AscendingOrder(nodes)[p]]
EdgeOrders(nodes) == {AscendingOrder(nodes), DescendingOrder(nodes)}

\* Every choice of roads with its steps added in ascending order; those with
\* both routes complete, where two nodes can give the same total in one
\* step, also with their steps added the other way round.
Graphs ==
    { h \in { [nodes |-> Nodes,
               data |-> [p \in AllPairs |-> IF p \in Pairs THEN f[p] ELSE NoEdge],
               inserted |-> r] :
             f \in { g \in [Pairs -> {NoEdge, ShortRoad, LongRoad, ParallelRoads,
                                      UntimedRoad}] :
                     \A p \in Pairs : g[p] \in EdgeDataOf(p) },
             r \in EdgeOrders(Nodes) } :
      \/ h.inserted = AscendingOrder(Nodes)
      \/ \A p \in UpperPairs \cup LowerPairs : h.data[p] # NoEdge }

\* The example graph: nodes A to E, the roads A -> B, B -> C, C -> D of
\* length 10 and A -> E, E -> D of length 5 (no travel time is given), added
\* in this order.
ExampleNames == <<"A", "B", "C", "D", "E">>
Node(name) == CHOOSE k \in DOMAIN ExampleNames : ExampleNames[k] = name
ExampleRoads ==
    {<<"A", "B", 10>>, <<"B", "C", 10>>, <<"C", "D", 10>>, <<"A", "E", 5>>, <<"E", "D", 5>>}
ExampleGraph ==
    [nodes |-> DOMAIN ExampleNames,
     data |-> [p \in (DOMAIN ExampleNames) \X (DOMAIN ExampleNames) |->
                 IF \E r \in ExampleRoads : Node(r[1]) = p[1] /\ Node(r[2]) = p[2]
                 THEN << Variant((CHOOSE r \in ExampleRoads :
                                     Node(r[1]) = p[1] /\ Node(r[2]) = p[2])[3], Missing) >>
                 ELSE << >>],
     inserted |-> AscendingOrder(DOMAIN ExampleNames)]
ExampleAvoidChoices == {{}, {Node("E")}}

WeightFields == {"length", "travel_time"}
StartChoices == {1, 2, Absent}
EndChoices == {1, 3, 4, Absent}
AvoidChoices == {{}, {1}, {2}, {3}, {4}, Nodes}

----------------------------------------------------------------------------
(* Graph access (networkx MultiDiGraph).                                   *)

\* least element of a finite non-empty set of numbers
Min(S) == CHOOSE x \in S : \A y \in S : x <= y

\* graph.get_edge_data(u, v).values()
GetEdgeData(g, u, v) == g.data[<<u, v>>]

\* v in graph.neighbors(u), u in graph.predecessors(v)
HasEdge(g, u, v) == u \in g.nodes /\ v \in g.nodes /\ GetEdgeData(g, u, v) # << >>

\* the first of the nodes S in the order of graph.neighbors(u)
FirstNeighbor(g, u, S) ==
    CHOOSE v \in S : \A y \in S : g.inserted[<<u, v>>] <= g.inserted[<<u, y>>]

\* the first of the nodes S in the order of graph.predecessors(v)
FirstPredecessor(g, v, S) ==
    CHOOSE u \in S : \A y \in S : g.inserted[<<u, v>>] <= g.inserted[<<y, v>>]

\* d.get(field, default)
Get(d, field, default) == IF d[field] = Missing THEN default ELSE d[field]

\* a + b on floats, with inf absorbing
Plus(a, b) == IF a >= Inf \/ b >= Inf THEN Inf ELSE a + b

\* min(d.get(weight, float('inf')) for d in edges.values())
MinWeight(g, u, v, w) ==
    LET edges == GetEdgeData(g, u, v)
        vals == {Get(edges[i], w, Inf) : i \in 1..Len(edges)}
    IN CHOOSE x \in vals : \A y \in vals : x <= y

----------------------------------------------------------------------------
(* heapq on a list of (cost, node) tuples.  A tuple is pushed only when    *)
(* the node's cost strictly decreases, so the heap never holds two equal   *)
(* tuples and its content is the set of its tuples.                        *)

TupleLess(a, b) == a[1] < b[1] \/ (a[1] = b[1] /\ a[2] < b[2])

\* q[0]
HeapTop(q) == CHOOSE t \in q : \A s \in q : s = t \/ TupleLess(t, s)

\* the heap after heapq.heappush(q, t) for every tuple t of T
HeapPush(q, T) == q \cup T

\* Faulty variant of HeapPop: the smallest tuple is read but left in the heap.
HeapPopKeeps(q) == q

\* the heap left by heapq.heappop(q)
HeapPop(q) == q \ {HeapTop(q)}

\* m.get(k, float('inf')) on a cost map
DistGet(m, k) == IF k \in DOMAIN m THEN m[k] ELSE Inf

----------------------------------------------------------------------------
(* State.                                                                  *)

VARIABLES
    G,              \* the graph handed to the search
    start_node, end_node, weight, avoid_nodes,    \* arguments of the search
    q_f, q_b,       \* the two heaps
    dist_f, dist_b, \* cost maps (dicts)
    parent_f, parent_b,
    visited_f, visited_b,
    mu, meeting_node,
    pc,             \* position in bidirectional_dijkstra
    result,         \* what bidirectional_dijkstra returned
    metrics,        \* what get_path_metrics returned for result.path
    rpc,            \* position in calculate_route ("none": no request)
    start_input, end_input, avoid_input,          \* arguments of the request
    start_pt, end_pt,                             \* geocoded points
    start_geocode_info, dest_geocode_info,        \* reverse-geocoded records
    calls,          \* collaborators and functions called so far
    failed,         \* the calls among them that raised
    route_error,    \* the RouteError calculate_route raised, if any
    results,        \* rg.search(coords): one record per node of the path
    json_output,    \* the dict calculate_route builds
    segment_dist, step_count, current_city_name, final_city_name,
    seg_i,          \* i: index of the next iteration of the segmentation loop
    season_raining, api_key,                      \* arguments of the request
    response,       \* what the POST /route handler answered
    other,          \* a second call running at the same time on the same graph:
                    \* its arguments, its own locals, its position, its results
    leg_dist        \* km_seg * 1000 of each leg emitted: leg_dist[n] is the
                    \* value of segment_dist that step_n was emitted with

inputVars == <<G, start_node, end_node, weight, avoid_nodes>>
loopVars == <<q_f, q_b, dist_f, dist_b, parent_f, parent_b, visited_f, visited_b,
              mu, meeting_node>>
segVars == <<results, json_output, segment_dist, step_count, current_city_name,
             final_city_name, seg_i, season_raining, api_key, response>>
routeVars == <<rpc, start_input, end_input, avoid_input, start_pt, end_pt,
               start_geocode_info, dest_geocode_info, calls, failed, route_error,
               segVars>>
vars == <<inputVars, loopVars, pc, result, metrics, routeVars, other, leg_dist>>

EmptyMap == [k \in {} |-> 0]
NoResult == [path |-> NonePath, cost |-> 0, raised |-> FALSE]
NoMetrics == [total_dist |-> 0, total_time |-> 0]

----------------------------------------------------------------------------
(* reconstruct_path                                                        *)

\* the chain curr, parent[curr], ... up to None (TRUE when every lookup
\* parent[curr] finds its key within n steps)
RECURSIVE ChainOk(_, _, _)
ChainOk(parent, curr, n) ==
    IF curr = NoNode THEN TRUE
    ELSE IF n = 0 \/ curr \notin DOMAIN parent THEN FALSE
    ELSE ChainOk(parent, parent[curr], n - 1)

RECURSIVE Chain(_, _)
Chain(parent, curr) ==
    IF curr = NoNode THEN << >> ELSE <<curr>> \o Chain(parent, parent[curr])

Reverse(s) == [i \in 1..Len(s) |-> s[Len(s) + 1 - i]]

\* Faulty variant of ReconstructPath: the backward half starts at the meeting
\* node itself.
ReconstructPathTwice(pf, pb, meeting, total_val) ==
    IF meeting = NoNode THEN [path |-> NonePath, cost |-> Inf, raised |-> FALSE]
    ELSE IF ~ChainOk(pf, meeting, Cardinality(DOMAIN pf) + 1)
            \/ ~ChainOk(pb, meeting, Cardinality(DOMAIN pb) + 1)
         THEN [path |-> NonePath, cost |-> Inf, raised |-> TRUE]
    ELSE [path |-> Reverse(Chain(pf, meeting)) \o Chain(pb, meeting),
          cost |-> total_val, raised |-> FALSE]

ReconstructPath(pf, pb, meeting, total_val) ==
    IF meeting = NoNode THEN [path |-> NonePath, cost |-> Inf, raised |-> FALSE]
    ELSE IF ~ChainOk(pf, meeting, Cardinality(DOMAIN pf) + 1)
            \/ meeting \notin DOMAIN pb
            \/ ~ChainOk(pb, pb[meeting], Cardinality(DOMAIN pb) + 1)
         THEN [path |-> NonePath, cost |-> Inf, raised |-> TRUE]   \* KeyError
    ELSE LET path_f == Reverse(Chain(pf, meeting))
             path_b == Chain(pb, pb[meeting])
         IN [path |-> path_f \o path_b, cost |-> total_val, raised |-> FALSE]

----------------------------------------------------------------------------
(* bidirectional_dijkstra                                                  *)

\* Faulty variant of Excluded: the exclusion set is never consulted.
ExcludedNever(n) == FALSE

\* "n in avoid_nodes" (lines 115, 118, 139, 142)
Excluded(n) == n \in avoid_nodes

(* One expansion relaxes the steps to the distinct neighbours of the popped *)
(* node, so the updates of the cost map, the parent map and the heap do    *)
(* not depend on one another; only mu and meeting_node depend on the order *)
(* of the loop, which goes through the neighbours in the order the graph   *)
(* yields them and replaces mu on a strict improvement alone: of the       *)
(* neighbours that give the least total, the first one yielded is kept.    *)

\* forward: d_u + val for the step u -> v (line 126)
NewDistF(u, d_u, v) == Plus(d_u, MinWeight(G, u, v, weight))

\* forward: the neighbours v of u whose cost the loop lowers (lines 117-125)
ImprovedF(u, d_u) ==
    {v \in G.nodes : /\ HasEdge(G, u, v)
                     /\ ~Excluded(v)
                     /\ NewDistF(u, d_u, v) < DistGet(dist_f, v)}

\* forward: the improved neighbours that the backward search has a cost for,
\* and the total of each (lines 130-131)
MeetF(u, d_u) == {v \in ImprovedF(u, d_u) : v \in DOMAIN dist_b}
TotalF(u, d_u, v) == NewDistF(u, d_u, v) + dist_b[v]

\* backward: d_v + val for the step u -> v (line 148)
NewDistB(v, d_v, u) == Plus(d_v, MinWeight(G, u, v, weight))

\* backward: the predecessors u of v whose cost the loop lowers (lines 141-147)
ImprovedB(v, d_v) ==
    {u \in G.nodes : /\ HasEdge(G, u, v)
                     /\ ~Excluded(u)
                     /\ NewDistB(v, d_v, u) < DistGet(dist_b, u)}

\* backward: the improved predecessors the forward search has a cost for, and
\* the total of each (lines 152-153)
MeetB(v, d_v) == {u \in ImprovedB(v, d_v) : u \in DOMAIN dist_f}
TotalB(v, d_v, u) == dist_f[u] + NewDistB(v, d_v, u)

\* mu after a loop that met the totals `totals` (lines 132-133, 154-155)
NewMu(totals) == Min(totals \cup {mu})

\* lines 83-106: the guard on the two nodes, then the initial queues and maps
Enter ==
    /\ pc = "call"
    /\ IF start_node \notin G.nodes \/ end_node \notin G.nodes
       THEN /\ result' = [path |-> NonePath, cost |-> Inf, raised |-> FALSE]
            /\ pc' = "done"
            /\ UNCHANGED loopVars
       ELSE /\ q_f' = {<<0, start_node>>}
            /\ q_b' = {<<0, end_node>>}
            /\ dist_f' = (start_node :> 0)
            /\ dist_b' = (end_node :> 0)
            /\ parent_f' = (start_node :> NoNode)
            /\ parent_b' = (end_node :> NoNode)
            /\ visited_f' = {}
            /\ visited_b' = {}
            /\ mu' = Inf
            /\ meeting_node' = NoNode
            /\ pc' = "loop"
            /\ UNCHANGED result
    /\ UNCHANGED <<leg_dist, other, inputVars, metrics, routeVars>>

\* Faulty variant of LoopContinues: the sum of the queue heads is not compared
\* with mu.
LoopWhileQueues ==
    /\ q_f # {}
    /\ q_b # {}

\* the condition under which the while loop runs one more round (lines 108-110)
LoopContinues ==
    /\ q_f # {}
    /\ q_b # {}
    /\ ~(HeapTop(q_f)[1] + HeapTop(q_b)[1] >= mu)

LoopTest ==
    /\ pc = "loop"
    /\ pc' = IF LoopContinues THEN "fwd" ELSE "ret"
    /\ UNCHANGED <<leg_dist, other, inputVars, loopVars, result, metrics, routeVars>>

\* lines 113-134
Forward ==
    /\ pc = "fwd"
    /\ pc' = "bwd"
    /\ IF q_f # {}
       THEN LET d_u == HeapTop(q_f)[1]
                u == HeapTop(q_f)[2]
            IN IF u \notin visited_f /\ ~Excluded(u)
               THEN /\ visited_f' = visited_f \cup {u}
                    /\ q_f' = HeapPush(HeapPop(q_f),
                              {<<NewDistF(u, d_u, v), v>> : v \in ImprovedF(u, d_u)})
                    /\ dist_f' = [v \in DOMAIN dist_f \cup ImprovedF(u, d_u) |->
                                    IF v \in ImprovedF(u, d_u)
                                    THEN NewDistF(u, d_u, v) ELSE dist_f[v]]
                    /\ parent_f' = [v \in DOMAIN parent_f \cup ImprovedF(u, d_u) |->
                                      IF v \in ImprovedF(u, d_u) THEN u ELSE parent_f[v]]
                    /\ mu' = NewMu({TotalF(u, d_u, v) : v \in MeetF(u, d_u)})
                    /\ meeting_node' =
                         IF mu' < mu
                         THEN FirstNeighbor(G, u, {v \in MeetF(u, d_u) : TotalF(u, d_u, v) = mu'})
                         ELSE meeting_node
               ELSE /\ q_f' = HeapPop(q_f)
                    /\ UNCHANGED <<visited_f, dist_f, parent_f, mu, meeting_node>>
       ELSE UNCHANGED <<q_f, visited_f, dist_f, parent_f, mu, meeting_node>>
    /\ UNCHANGED <<leg_dist, other, inputVars, q_b, dist_b, parent_b, visited_b, result, metrics, routeVars>>

\* lines 137-156
Backward ==
    /\ pc = "bwd"
    /\ pc' = "loop"
    /\ IF q_b # {}
       THEN LET d_v == HeapTop(q_b)[1]
                v == HeapTop(q_b)[2]
            IN IF v \notin visited_b /\ ~Excluded(v)
               THEN /\ visited_b' = visited_b \cup {v}
                    /\ q_b' = HeapPush(HeapPop(q_b),
                              {<<NewDistB(v, d_v, u), u>> : u \in ImprovedB(v, d_v)})
                    /\ dist_b' = [u \in DOMAIN dist_b \cup ImprovedB(v, d_v) |->
                                    IF u \in ImprovedB(v, d_v)
                                    THEN NewDistB(v, d_v, u) ELSE dist_b[u]]
                    /\ parent_b' = [u \in DOMAIN parent_b \cup ImprovedB(v, d_v) |->
                                      IF u \in ImprovedB(v, d_v) THEN v ELSE parent_b[u]]
                    /\ mu' = NewMu({TotalB(v, d_v, u) : u \in MeetB(v, d_v)})
                    /\ meeting_node' =
                         IF mu' < mu
                         THEN FirstPredecessor(G, v, {u \in MeetB(v, d_v) : TotalB(v, d_v, u) = mu'})
                         ELSE meeting_node
               ELSE /\ q_b' = HeapPop(q_b)
                    /\ UNCHANGED <<visited_b, dist_b, parent_b, mu, meeting_node>>
       ELSE UNCHANGED <<q_b, visited_b, dist_b, parent_b, mu, meeting_node>>
    /\ UNCHANGED <<leg_dist, other, inputVars, q_f, dist_f, parent_f, visited_f, result, metrics, routeVars>>

\* line 158
Return ==
    /\ pc = "ret"
    /\ result' = ReconstructPath(parent_f, parent_b, meeting_node, mu)
    /\ pc' = "done"
    /\ UNCHANGED <<leg_dist, other, inputVars, loopVars, metrics, routeVars>>

----------------------------------------------------------------------------
(* bidirectional_dijkstra as a function of its arguments: the same rounds,  *)
(* on a record of the locals of one call.                                  *)

\* lines 93-106: the locals of a call before the first round
InitialLocals(s, e) ==
    [q_f |-> {<<0, s>>}, q_b |-> {<<0, e>>},
     dist_f |-> (s :> 0), dist_b |-> (e :> 0),
     parent_f |-> (s :> NoNode), parent_b |-> (e :> NoNode),
     visited_f |-> {}, visited_b |-> {},
     mu |-> Inf, meeting_node |-> NoNode]

\* lines 108-110 on the locals st
RoundContinues(st) ==
    /\ st.q_f # {}
    /\ st.q_b # {}
    /\ ~(HeapTop(st.q_f)[1] + HeapTop(st.q_b)[1] >= st.mu)

\* lines 113-134 on the locals st
StepForward(g, w, avoid, st) ==
    IF st.q_f = {} THEN st
    ELSE LET d_u == HeapTop(st.q_f)[1]
             u == HeapTop(st.q_f)[2]
         IN IF u \in st.visited_f \/ u \in avoid
            THEN [st EXCEPT !.q_f = HeapPop(st.q_f)]
            ELSE LET new == [v \in g.nodes |-> Plus(d_u, MinWeight(g, u, v, w))]
                     improved == {v \in g.nodes : /\ HasEdge(g, u, v)
                                                  /\ v \notin avoid
                                                  /\ new[v] < DistGet(st.dist_f, v)}
                     meet == {v \in improved : v \in DOMAIN st.dist_b}
                     new_mu == Min({new[v] + st.dist_b[v] : v \in meet} \cup {st.mu})
                 IN [q_f |-> HeapPush(HeapPop(st.q_f), {<<new[v], v>> : v \in improved}),
                     q_b |-> st.q_b,
                     dist_f |-> [v \in DOMAIN st.dist_f \cup improved |->
                                   IF v \in improved THEN new[v] ELSE st.dist_f[v]],
                     dist_b |-> st.dist_b,
                     parent_f |-> [v \in DOMAIN st.parent_f \cup improved |->
                                     IF v \in improved THEN u ELSE st.parent_f[v]],
                     parent_b |-> st.parent_b,
                     visited_f |-> st.visited_f \cup {u},
                     visited_b |-> st.visited_b,
                     mu |-> new_mu,
                     meeting_node |->
                         IF new_mu < st.mu
                         THEN FirstNeighbor(g, u, {v \in meet : new[v] + st.dist_b[v] = new_mu})
                         ELSE st.meeting_node]

\* lines 137-156 on the locals st
StepBackward(g, w, avoid, st) ==
    IF st.q_b = {} THEN st
    ELSE LET d_v == HeapTop(st.q_b)[1]
             v == HeapTop(st.q_b)[2]
         IN IF v \in st.visited_b \/ v \in avoid
            THEN [st EXCEPT !.q_b = HeapPop(st.q_b)]
            ELSE LET new == [u \in g.nodes |-> Plus(d_v, MinWeight(g, u, v, w))]
                     improved == {u \in g.nodes : /\ HasEdge(g, u, v)
                                                  /\ u \notin avoid
                                                  /\ new[u] < DistGet(st.dist_b, u)}
                     meet == {u \in improved : u \in DOMAIN st.dist_f}
                     new_mu == Min({st.dist_f[u] + new[u] : u \in meet} \cup {st.mu})
                 IN [q_f |-> st.q_f,
                     q_b |-> HeapPush(HeapPop(st.q_b), {<<new[u], u>> : u \in improved}),
                     dist_f |-> st.dist_f,
                     dist_b |-> [u \in DOMAIN st.dist_b \cup improved |->
                                   IF u \in improved THEN new[u] ELSE st.dist_b[u]],
                     parent_f |-> st.parent_f,
                     parent_b |-> [u \in DOMAIN st.parent_b \cup improved |->
                                     IF u \in improved THEN v ELSE st.parent_b[u]],
                     visited_f |-> st.visited_f,
                     visited_b |-> st.visited_b \cup {v},
                     mu |-> new_mu,
                     meeting_node |->
                         IF new_mu < st.mu
                         THEN FirstPredecessor(g, v, {u \in meet : st.dist_f[u] + new[u] = new_mu})
                         ELSE st.meeting_node]

\* the while loop of lines 108-156
RECURSIVE RunRounds(_, _, _, _)
RunRounds(g, w, avoid, st) ==
    IF RoundContinues(st)
    THEN RunRounds(g, w, avoid, StepBackward(g, w, avoid, StepForward(g, w, avoid, st)))
    ELSE st

\* lines 77-158: what a call returns
BidirectionalDijkstra(g, s, e, w, avoid) ==
    IF s \notin g.nodes \/ e \notin g.nodes
    THEN [path |-> NonePath, cost |-> Inf, raised |-> FALSE]
    ELSE LET st == RunRounds(g, w, avoid, InitialLocals(s, e))
         IN ReconstructPath(st.parent_f, st.parent_b, st.meeting_node, st.mu)

----------------------------------------------------------------------------
(* get_path_metrics                                                        *)

\* min(data.values(), key=lambda x: x.get('travel_time', inf)): the first
\* variant, in key order, whose travel_time is least
RECURSIVE MinByTravelTime(_, _)
MinByTravelTime(data, best) ==
    IF data = << >> THEN best
    ELSE IF Get(Head(data), "travel_time", Inf) < Get(best, "travel_time", Inf)
         THEN MinByTravelTime(Tail(data), Head(data))
         ELSE MinByTravelTime(Tail(data), best)

\* Faulty variant of RepresentativeEdge: the variant of least length.
RepresentativeEdgeByLength(g, u, v) ==
    LET data == GetEdgeData(g, u, v)
    IN data[CHOOSE i \in 1..Len(data) :
              \A j \in 1..Len(data) : Get(data[i], "length", 0) <= Get(data[j], "length", 0)]

RepresentativeEdge(g, u, v) ==
    LET data == GetEdgeData(g, u, v) IN MinByTravelTime(Tail(data), Head(data))

RECURSIVE GetPathMetrics(_, _)
GetPathMetrics(g, path_nodes) ==
    IF Len(path_nodes) < 2 THEN [total_dist |-> 0, total_time |-> 0]
    ELSE LET n == Len(path_nodes)
             rest == GetPathMetrics(g, SubSeq(path_nodes, 1, n - 1))
             edge == RepresentativeEdge(g, path_nodes[n - 1], path_nodes[n])
         IN [total_dist |-> rest.total_dist + Get(edge, "length", 0),
             total_time |-> rest.total_time + Get(edge, "travel_time", 0)]

\* the caller's metrics pass over a path the search returned
Metrics ==
    /\ rpc = "none"
    /\ pc = "done"
    /\ result.path # NonePath
    /\ metrics' = GetPathMetrics(G, result.path)
    /\ pc' = "measured"
    /\ UNCHANGED <<leg_dist, other, inputVars, loopVars, result, routeVars>>

----------------------------------------------------------------------------
(* calculate_route: the request, its collaborators and its steps up to the *)
(* result of the search.                                                   *)

\* Place names a request may carry; the last one is known to no geocoder.
PlaceInputs ==
    {"Cotonou", "COTONOU", "Cotonou, Benin", "Parakou", "Lome", "Accra", "Atlantis"}
AvoidInputs == {"", "Bohicon", "Atlantis"}

\* str.lower() on the names of the model: those of the requests, of the
\* FON_CITIES keys and of the places the reverse geocoder returns
Lower(str) ==
    CASE str = "Cotonou" -> "cotonou"
      [] str = "COTONOU" -> "cotonou"
      [] str = "Cotonou, Benin" -> "cotonou, benin"
      [] str = "Parakou" -> "parakou"
      [] str = "Lome" -> "lome"
      [] str = "Accra" -> "accra"
      [] str = "Atlantis" -> "atlantis"
      [] str = "Bohicon" -> "bohicon"
      [] str = "Dassa" -> "dassa"
      [] str = "Aneho" -> "aneho"
      [] str = "Gaya" -> "gaya"
      [] str = "" -> ""

NoPoint == "unset"

\* The world of the geocoder: the queries it resolves and the point of each.
KnownPlaces == {"Cotonou", "COTONOU", "Cotonou, Benin", "Parakou", "Lome", "Accra", "Bohicon"}
PointOf(query) ==
    CASE query \in {"Cotonou", "COTONOU", "Cotonou, Benin"} -> "pt_cotonou"
      [] query = "Parakou" -> "pt_parakou"
      [] query = "Lome" -> "pt_lome"
      [] query = "Accra" -> "pt_accra"
      [] query = "Bohicon" -> "pt_bohicon"

\* The world of the reverse geocoder: name and country code at each point.
Unbound == [bound |-> FALSE, name |-> "", cc |-> ""]
InfoAt(pt) ==
    CASE pt = "pt_cotonou" -> [bound |-> TRUE, name |-> "Cotonou", cc |-> "BJ"]
      [] pt = "pt_parakou" -> [bound |-> TRUE, name |-> "Parakou", cc |-> "BJ"]
      [] pt = "pt_bohicon" -> [bound |-> TRUE, name |-> "Bohicon", cc |-> "BJ"]
      [] pt = "pt_lome" -> [bound |-> TRUE, name |-> "Lome", cc |-> "TG"]
      [] pt = "pt_accra" -> [bound |-> TRUE, name |-> "Accra", cc |-> "GH"]

\* Coordinates, in units of 1/111 degree (about one kilometre), of the points
\* and of the nodes of the road map: <<y, x>>.
PointYX(pt) ==
    CASE pt = "pt_cotonou" -> <<0, 0>>
      [] pt = "pt_bohicon" -> <<120, 0>>
      [] pt = "pt_parakou" -> <<400, 40>>
      [] pt = "pt_lome" -> <<0, -130>>
      [] pt = "pt_accra" -> <<-90, -290>>
NodeYX(n) ==
    CASE n = 1 -> <<0, 1>>
      [] n = 2 -> <<121, 2>>
      [] n = 3 -> <<118, -60>>
      [] n = 4 -> <<399, 40>>

\* metres of road per unit of length of the graphs above
RoadUnit == 40

\* the graph g with its lengths in metres
InMetres(g) ==
    [nodes |-> g.nodes,
     data |-> [p \in AllPairs |->
                 IF g.data[p] = NoEdge THEN NoEdge
                 ELSE [k \in DOMAIN g.data[p] |->
                         Variant(g.data[p][k].length * RoadUnit,
                                 g.data[p][k].travel_time)]],
     inserted |-> g.inserted]

\* The road maps load_graph may return: both routes 1 -> 4 may be complete or
\* cut, a link 2 -> 3 may join them, and the way back 4 -> 1 exists.
RoadMaps ==
    {InMetres(g) : g \in {h \in Graphs : /\ h.data[<<2, 3>>] \in {NoEdge, LongRoad}
                                         /\ h.data[<<4, 1>>] = LongRoad}}
NoGraph == [nodes |-> {}, data |-> [p \in AllPairs |-> NoEdge],
            inserted |-> AscendingOrder(Nodes)]

\* ox.distance.nearest_nodes(G, x, y)
SqDist(a, b) == (a[1] - b[1]) * (a[1] - b[1]) + (a[2] - b[2]) * (a[2] - b[2])
NearestNode(g, pt) ==
    CHOOSE n \in g.nodes :
        \A m \in g.nodes : SqDist(NodeYX(n), PointYX(pt)) < SqDist(NodeYX(m), PointYX(pt))
                           \/ (SqDist(NodeYX(n), PointYX(pt)) = SqDist(NodeYX(m), PointYX(pt))
                               /\ n <= m)

\* radius_km of the call at line 293
AvoidRadiusKm == 3

\* the node scan of get_nodes_to_avoid (lines 182-192); with coordinates in
\* units of 1/111 degree, limit_sq = radius_km ** 2
NodesWithin(g, pt, radius_km) ==
    {n \in g.nodes : SqDist(NodeYX(n), PointYX(pt)) < radius_km * radius_km}

NoError == [raised |-> FALSE, message |-> "", details |-> ""]
RouteError(message, details) == [raised |-> TRUE, message |-> message, details |-> details]

\* raise RouteError(...) out of calculate_route
Raise(err) ==
    /\ rpc' = "raised"
    /\ route_error' = err

searchVars == <<loopVars, pc, result, metrics>>

\* lines 241-243
Validate ==
    /\ rpc = "validate"
    /\ IF Lower(start_input) = Lower(end_input)
       THEN Raise(RouteError("Origine et destination identiques", ""))
       ELSE /\ rpc' = "load"
            /\ UNCHANGED route_error
    /\ UNCHANGED <<leg_dist, other, segVars, inputVars, searchVars, start_input, end_input, avoid_input,
                   start_pt, end_pt, start_geocode_info, dest_geocode_info, calls, failed>>

\* lines 246-248: load_graph returns a road map or None
LoadGraph ==
    /\ rpc = "load"
    /\ calls' = calls \cup {"load_graph"}
    /\ \E g \in RoadMaps \cup {NoGraph} :
          /\ G' = g
          /\ IF g = NoGraph
             THEN Raise(RouteError("Impossible de charger le graphe routier", ""))
             ELSE /\ rpc' = "geocode"
                  /\ UNCHANGED route_error
    /\ UNCHANGED <<leg_dist, other, segVars, start_node, end_node, weight, avoid_nodes, searchVars,
                   start_input, end_input, avoid_input,
                   start_pt, end_pt, start_geocode_info, dest_geocode_info, failed>>

\* smart_geocode (lines 228-232): the point of the query, or of the query
\* followed by ", Benin"; raises when the geocoder fails on the second too
SmartGeocodeResults(query) ==
    IF query \in KnownPlaces THEN {PointOf(query)} ELSE {}

\* lines 252-253, and the handler of line 287 for what they raise
Geocode ==
    /\ rpc = "geocode"
    /\ calls' = calls \cup {"geocode"}
    /\ \/ \E s \in SmartGeocodeResults(start_input), e \in SmartGeocodeResults(end_input) :
             /\ start_pt' = s
             /\ end_pt' = e
             /\ rpc' = "reverse"
             /\ UNCHANGED <<route_error, failed>>
       \/ /\ failed' = failed \cup {"geocode"}
          /\ Raise(RouteError("Lieu introuvable", "geocode"))
          /\ UNCHANGED <<start_pt, end_pt>>
    /\ UNCHANGED <<leg_dist, other, segVars, inputVars, searchVars, start_input, end_input, avoid_input,
                   start_geocode_info, dest_geocode_info>>

\* Faulty variant of InfoAfterFailure: the handler assumes the covered country.
InfoAssumedLocal == [bound |-> TRUE, name |-> "", cc |-> "BJ"]

\* what a local that line 257 or 258 did not assign holds after "except: pass"
InfoAfterFailure == Unbound

\* lines 256-263: rg.search on the two points; the handler swallows a failure
\* and leaves unassigned what the failing call and the calls after it assign
ReverseGeocode ==
    /\ rpc = "reverse"
    /\ calls' = calls \cup {"rg.search"}
    /\ rpc' = "region"
    /\ \E outcome \in {"both", "first fails", "second fails"} :
          /\ start_geocode_info' =
                IF outcome = "first fails" THEN InfoAfterFailure ELSE InfoAt(start_pt)
          /\ dest_geocode_info' =
                IF outcome = "both" THEN InfoAt(end_pt) ELSE InfoAfterFailure
          /\ failed' = IF outcome = "both" THEN failed ELSE failed \cup {"rg.search"}
    /\ UNCHANGED <<leg_dist, other, segVars, inputVars, searchVars, start_input, end_input, avoid_input,
                   start_pt, end_pt, route_error>>

\* Faulty variant of RegionVerdict: the destination is checked first.
RegionVerdictDestFirst(si, di) ==
    IF ~si.bound \/ ~di.bound
    THEN RouteError("Lieu introuvable", "UnboundLocalError")
    ELSE IF di.cc # "BJ" THEN RouteError("Destination hors zone", di.cc)
    ELSE IF si.cc # "BJ" THEN RouteError("Depart incorrect", si.cc)
    ELSE NoError

\* lines 265-280 and the handlers of lines 285-288: reading an unassigned
\* local raises UnboundLocalError, which line 287 turns into a RouteError
RegionVerdict(si, di) ==
    IF ~si.bound \/ ~di.bound
    THEN RouteError("Lieu introuvable", "UnboundLocalError")
    ELSE IF si.cc # "BJ" THEN RouteError("Depart incorrect", si.cc)
    ELSE IF di.cc # "BJ" THEN RouteError("Destination hors zone", di.cc)
    ELSE NoError

CheckRegion ==
    /\ rpc = "region"
    /\ LET verdict == RegionVerdict(start_geocode_info, dest_geocode_info)
       IN IF verdict.raised
          THEN Raise(verdict)
          ELSE /\ rpc' = "nearest"
               /\ UNCHANGED route_error
    /\ UNCHANGED <<leg_dist, other, segVars, inputVars, searchVars, start_input, end_input, avoid_input,
                   start_pt, end_pt, start_geocode_info, dest_geocode_info, calls, failed>>

\* lines 282-283, and the handler of line 287 for what
\* ox.distance.nearest_nodes raises
NearestNodes ==
    /\ rpc = "nearest"
    /\ calls' = calls \cup {"nearest_nodes"}
    /\ \/ /\ start_node' = NearestNode(G, start_pt)
          /\ end_node' = NearestNode(G, end_pt)
          /\ rpc' = "avoid"
          /\ UNCHANGED <<route_error, failed>>
       \/ /\ failed' = failed \cup {"nearest_nodes"}
          /\ Raise(RouteError("Lieu introuvable", "nearest_nodes"))
          /\ UNCHANGED <<start_node, end_node>>
    /\ UNCHANGED <<leg_dist, other, segVars, G, weight, avoid_nodes, searchVars, start_input, end_input, avoid_input,
                   start_pt, end_pt, start_geocode_info, dest_geocode_info>>

\* Faulty variant of NodesAfterFailure: a failed lookup excludes every node.
NodesAfterFailureAll(g) == g.nodes

\* lines 193-194: what get_nodes_to_avoid returns when anything raised
NodesAfterFailure(g) == {}

\* the outcomes of ox.geocode in get_nodes_to_avoid (line 179): TRUE when it
\* returns a point, FALSE when it raises; it raises on a place it does not know
AvoidGeocodeOutcomes(city_name) ==
    IF city_name \in KnownPlaces THEN {TRUE, FALSE} ELSE {FALSE}

\* get_nodes_to_avoid (lines 176-194): the nodes around the geocoded place, or
\* the value of the handler when the lookup raised
GetNodesToAvoid(g, city_name, radius_km, geocoded) ==
    IF geocoded
    THEN NodesWithin(g, PointOf(city_name), radius_km)
    ELSE NodesAfterFailure(g)

\* lines 291-293
Avoid ==
    /\ rpc = "avoid"
    /\ IF avoid_input # ""
       THEN /\ calls' = calls \cup {"get_nodes_to_avoid"}
            /\ \E geocoded \in AvoidGeocodeOutcomes(avoid_input) :
                  /\ avoid_nodes' = GetNodesToAvoid(G, avoid_input, AvoidRadiusKm, geocoded)
                  /\ failed' = IF geocoded THEN failed ELSE failed \cup {"avoid geocode"}
       ELSE /\ avoid_nodes' = {}
            /\ UNCHANGED <<calls, failed>>
    /\ rpc' = "search"
    /\ UNCHANGED <<leg_dist, other, segVars, G, start_node, end_node, weight, searchVars, start_input, end_input,
                   avoid_input, start_pt, end_pt, start_geocode_info, dest_geocode_info,
                   route_error>>

\* line 296: the call
CallSearch ==
    /\ rpc = "search"
    /\ pc = "idle"
    /\ calls' = calls \cup {"bidirectional_dijkstra"}
    /\ weight' = "travel_time"
    /\ pc' = "call"
    /\ UNCHANGED <<leg_dist, other, segVars, G, start_node, end_node, avoid_nodes, loopVars, result, metrics,
                   rpc, start_input, end_input, avoid_input, start_pt, end_pt,
                   start_geocode_info, dest_geocode_info, failed, route_error>>

\* lines 296-299: the search returned
AfterSearch ==
    /\ rpc = "search"
    /\ pc = "done"
    /\ IF result.path = NonePath
       THEN Raise(RouteError("Aucun chemin trouve", ""))
       ELSE /\ rpc' = "segment"
            /\ UNCHANGED route_error
    /\ pc' = "returned"
    /\ UNCHANGED <<leg_dist, other, segVars, inputVars, loopVars, result, metrics, start_input, end_input,
                   avoid_input, start_pt, end_pt, start_geocode_info, dest_geocode_info,
                   calls, failed>>

----------------------------------------------------------------------------
(* calculate_route after the search: the legs of the path, the summary and *)
(* the answer of the POST /route handler.                                  *)

\* The world of the batch reverse geocoder: the record it returns for the
\* coordinates of each node.
Place(name, cc) == [name |-> name, cc |-> cc]
ResolutionMaps ==
    {<<Place("Cotonou", "BJ"), Place("Bohicon", "BJ"), Place("Dassa", "BJ"), Place("Parakou", "BJ")>>,
     <<Place("Cotonou", "BJ"), Place("Parakou", "BJ"), Place("Dassa", "BJ"), Place("Parakou", "BJ")>>,
     <<Place("Cotonou", "BJ"), Place("Aneho", "TG"), Place("Dassa", "BJ"), Place("Parakou", "BJ")>>,
     <<Place("Cotonou", "BJ"), Place("Bohicon", "BJ"), Place("Bohicon", "BJ"), Place("Gaya", "NE")>>,
     <<Place("Cotonou", "BJ"), Place("Cotonou", "BJ"), Place("Aneho", "TG"), Place("Cotonou", "BJ")>>,
     <<Place("Aneho", "TG"), Place("Aneho", "TG"), Place("Lome", "TG"), Place("Gaya", "NE")>>}

\* str.title() on the names of the model
Title(str) == IF str = "COTONOU" THEN "Cotonou" ELSE str

\* city_fren.split(',')[0].strip() (line 221)
BaseName(city_fren) == IF city_fren = "Cotonou, Benin" THEN "Cotonou" ELSE city_fren

\* the entries of FON_CITIES (lines 16-23) for the names of the model
FonCities == [Cotonou |-> "Kutonu", Bohicon |-> "Boxikon"]

\* get_fon_city_name (lines 219-226)
GetFonCityName(city_fren) ==
    IF Lower(BaseName(city_fren)) = Lower("Cotonou") THEN "Kutonu (Cotonou)"
    ELSE IF Lower(BaseName(city_fren)) = Lower("Bohicon") THEN "Boxikon (Bohicon)"
    ELSE city_fren

\* f"{d / 1000.0:.1f}": the distance d (metres) in tenths of a kilometre,
\* rounded to the nearest (no length of the model falls half way)
FormatKm(d) == (d + 50) \div 100

\* f"{d / 1000.0:.0f}": the distance d in whole kilometres, rounded
FormatKmWhole(d) == (d + 500) \div 1000

NoKey == ""
NoLeg == [name |-> "", km |-> 0]
Leg(name, km) == [name |-> name, km |-> km]
NoText == [text |-> "", lang |-> ""]
NoInfo == [km_total |-> 0, hours |-> 0, minutes |-> 0, weather |-> FALSE,
           p_bus |-> 0, p_taxi |-> 0, suggestion |-> FALSE, lang |-> ""]

\* json_output: `keys` are the fixed keys present; steps[n] is the value
\* under the key step_n
NoJson == [keys |-> {}, departure |-> "", steps |-> EmptyMap, destination |-> NoLeg,
           avoid_city |-> "", season |-> NoText, info_sup |-> NoInfo]

NoResponse == [status_code |-> 0, error |-> "", details |-> "", body |-> NoJson]

\* lines 317-322: the name of the last node resolved in the country, or of
\* the last node when there is none
RECURSIVE LastInCountry(_, _)
LastInCountry(res, k) ==
    IF k = 0 THEN ""
    ELSE IF res[k].cc = "BJ" THEN res[k].name
    ELSE LastInCountry(res, k - 1)

FinalCityName(res) ==
    IF LastInCountry(res, Len(res)) # "" THEN LastInCountry(res, Len(res))
    ELSE res[Len(res)].name

\* line 328
RECURSIVE MinLength(_, _)
MinLength(data, k) ==
    IF k = 1 THEN Get(data[1], "length", 0)
    ELSE LET rest == MinLength(data, k - 1)
             here == Get(data[k], "length", 0)
         IN IF here < rest THEN here ELSE rest

\* Faulty variant of EdgeLen: the length of whichever variant comes first.
EdgeLenOfFirst(g, u, v) == Get(GetEdgeData(g, u, v)[1], "length", 0)

EdgeLen(g, u, v) == MinLength(GetEdgeData(g, u, v), Len(GetEdgeData(g, u, v)))

\* lines 302-322: the batch lookup of the nodes of the path, which nothing
\* catches when it raises, then the initial values of the loop
Resolve ==
    /\ rpc = "segment"
    /\ calls' = calls \cup {"rg.search(coords)"}
    /\ \/ \E m \in ResolutionMaps :
             LET res == [k \in DOMAIN result.path |-> m[result.path[k]]]
             IN /\ results' = res
                /\ json_output' = [json_output EXCEPT
                                      !.keys = @ \cup {"departure"},
                                      !.departure = GetFonCityName(Title(start_input))]
                /\ segment_dist' = 0
                /\ step_count' = 1
                /\ current_city_name' = res[1].name
                /\ final_city_name' = FinalCityName(res)
                /\ seg_i' = 0
                /\ rpc' = "walk"
                /\ UNCHANGED failed
       \/ /\ failed' = failed \cup {"rg.search(coords)"}
          /\ rpc' = "crashed"
          /\ UNCHANGED <<results, json_output, segment_dist, step_count,
                         current_city_name, final_city_name, seg_i>>
    /\ UNCHANGED <<leg_dist, other, inputVars, searchVars, start_input, end_input, avoid_input,
                   start_pt, end_pt, start_geocode_info, dest_geocode_info, route_error,
                   season_raining, api_key, response>>

\* Faulty variant of InCountry: every node counts as inside.
InCountryAlways(res) == TRUE

\* line 332
InCountry(res) == res.cc = "BJ"

\* line 337
IsFinalCity(city) == city = final_city_name

\* Faulty variant of DistAfterEmission: the running distance is not reset.
DistKeptAfterEmission == segment_dist

\* line 345: segment_dist after a leg was emitted
DistAfterEmission == 0

\* lines 324-346: one iteration of the loop over the steps of the path
Walk ==
    /\ rpc = "walk"
    /\ seg_i < Len(result.path) - 1
    /\ LET u == result.path[seg_i + 1]
           v == result.path[seg_i + 2]
           dist == segment_dist + EdgeLen(G, u, v)
           next_res == results[seg_i + 2]
           next_city == next_res.name
       IN IF ~InCountry(next_res) \/ next_city = current_city_name
          THEN /\ segment_dist' = dist
               /\ UNCHANGED <<json_output, step_count, current_city_name, leg_dist>>
          ELSE IF IsFinalCity(next_city)
          THEN /\ segment_dist' = dist
               /\ current_city_name' = next_city
               /\ UNCHANGED <<json_output, step_count, leg_dist>>
          ELSE /\ json_output' = [json_output EXCEPT
                                    !.steps = (step_count :> Leg(GetFonCityName(next_city),
                                                                 FormatKm(dist))) @@ @]
               /\ leg_dist' = (step_count :> dist) @@ leg_dist
               /\ step_count' = step_count + 1
               /\ segment_dist' = DistAfterEmission
               /\ current_city_name' = next_city
    /\ seg_i' = seg_i + 1
    /\ UNCHANGED <<other, inputVars, searchVars, rpc, start_input, end_input, avoid_input,
                   start_pt, end_pt, start_geocode_info, dest_geocode_info, calls, failed,
                   route_error, results, final_city_name, season_raining, api_key,
                   response>>

\* lines 214-217: the value of the handler of translate_with_gemini
TextAfterFailure(text) == [text |-> text, lang |-> "fr"]

\* translate_with_gemini (lines 196-217); answered: the model replied
Translate(text, key, answered) ==
    IF key = NoKey THEN [text |-> text, lang |-> "fr"]
    ELSE IF answered THEN [text |-> text, lang |-> "fon"]
    ELSE TextAfterFailure(text)

\* whether the translation service answers a call made with the key
TranslationOutcomes(key) == IF key = NoKey THEN {TRUE} ELSE {TRUE, FALSE}

\* y above which line 368 takes the road for degraded: latitude 9.8, the
\* origin of the coordinates being at latitude 6.4
DegradedAbove == 377

MaxY(path) == CHOOSE y \in {NodeYX(path[k])[1] : k \in DOMAIN path} :
                 \A k \in DOMAIN path : NodeYX(path[k])[1] <= y

\* lines 362-386: the summary line, before translation
InfoSup(g, path, raining) ==
    LET m == GetPathMetrics(g, path)
        weather == raining /\ MaxY(path) > DegradedAbove
        time_s == IF weather THEN m.total_time + 1800 ELSE m.total_time
        hours == time_s \div 3600
    IN [km_total |-> FormatKmWhole(m.total_dist),
        hours |-> hours,
        minutes |-> (time_s % 3600) \div 60,
        weather |-> weather,
        p_bus |-> (m.total_dist * 18) \div 1000,
        p_taxi |-> (m.total_dist * 30) \div 1000,
        suggestion |-> hours >= 10,
        lang |-> "fr"]

\* lines 348-391: the destination leg, the metadata and the summary
Assemble ==
    /\ rpc = "walk"
    /\ seg_i = Len(result.path) - 1
    /\ \E raining \in BOOLEAN, key \in {NoKey, "key"} :
       \E answered1 \in TranslationOutcomes(key), answered2 \in TranslationOutcomes(key) :
          /\ season_raining' = raining
          /\ api_key' = key
          /\ calls' = calls \cup (IF key = NoKey THEN {} ELSE {"translate"})
          /\ failed' = failed \cup (IF answered1 /\ answered2 THEN {} ELSE {"translate"})
          /\ json_output' =
               [json_output EXCEPT
                  !.keys = @ \cup {"destination", "season", "info_sup"}
                             \cup (IF avoid_input # "" THEN {"avoid_city"} ELSE {}),
                  !.destination = Leg(GetFonCityName(Title(end_input)),
                                      FormatKm(segment_dist)),
                  !.avoid_city = IF avoid_input # ""
                                 THEN GetFonCityName(Title(avoid_input)) ELSE @,
                  !.season = Translate(IF raining THEN "Saison des Pluies"
                                       ELSE "Saison Seche", key, answered1),
                  !.info_sup = [InfoSup(G, result.path, raining) EXCEPT
                                  !.lang = Translate("info_sup", key, answered2).lang]]
    /\ rpc' = "result"
    /\ UNCHANGED <<leg_dist, other, inputVars, searchVars, start_input, end_input, avoid_input,
                   start_pt, end_pt, start_geocode_info, dest_geocode_info, route_error,
                   results, segment_dist, step_count, current_city_name,
                   final_city_name, seg_i, response>>

\* Faulty variant of StatusOfRouteError: a RouteError is answered as a crash.
StatusOfRouteErrorInternal == 500

\* src/api.py line 122
StatusOfRouteError == 400

\* None under a key of the answer (null in the JSON body)
Null == "null"

\* response_model=RouteResponse (src/api.py lines 70-81, 95): the answer
\* carries every key of the result, the step keys included (extra = "allow"),
\* and avoid_city, which is null when the result has none
RouteResponse(json) ==
    [json EXCEPT !.keys = @ \cup {"avoid_city"},
                 !.avoid_city = IF "avoid_city" \in json.keys THEN @ ELSE Null]

\* get_route (src/api.py lines 93-124), which calls calculate_route without
\* a key: the result passed through the response model, or the HTTPException
\* made of what was raised
Respond ==
    /\ rpc \in {"result", "raised", "crashed"}
    /\ api_key = NoKey
    /\ response = NoResponse
    /\ response' =
         IF rpc = "result"
         THEN [status_code |-> 200, error |-> "", details |-> "",
               body |-> RouteResponse(json_output)]
         ELSE IF rpc = "raised"
         THEN [status_code |-> StatusOfRouteError, error |-> route_error.message,
               details |-> route_error.details, body |-> NoJson]
         ELSE [status_code |-> 500, error |-> "Erreur interne",
               details |-> "exception", body |-> NoJson]
    /\ UNCHANGED <<leg_dist, other, inputVars, searchVars, rpc, start_input, end_input, avoid_input,
                   start_pt, end_pt, start_geocode_info, dest_geocode_info, calls, failed,
                   route_error, results, json_output, segment_dist, step_count,
                   current_city_name, final_city_name, seg_i, season_raining, api_key>>

----------------------------------------------------------------------------
(* A second call on the same graph, whose steps interleave with those of   *)
(* the first: get_nodes_to_avoid, bidirectional_dijkstra, get_path_metrics. *)
(* It has its own queues, cost maps and exclusion set; the graph is the    *)
(* only object the two calls share.                                        *)

\* the locals of a call that has not started
NoLocals == InitialLocals(NoNode, NoNode)

IdleOther ==
    [pc |-> "idle", start_node |-> NoNode, end_node |-> NoNode, weight |-> "length",
     avoid_input |-> "", avoid_nodes |-> {}, locals |-> NoLocals,
     result |-> NoResult, metrics |-> NoMetrics]

\* Faulty variant of OtherExclusion: the second call consults the exclusion
\* set of the first.
OtherExclusionShared(o) == avoid_nodes

\* the avoid_nodes argument of the second call (line 77)
OtherExclusion(o) == o.avoid_nodes

\* get_nodes_to_avoid (lines 176-194) in the second call
OtherAvoid ==
    /\ other.pc = "avoid"
    /\ \E geocoded \in AvoidGeocodeOutcomes(other.avoid_input) :
          other' = [other EXCEPT
                      !.avoid_nodes = GetNodesToAvoid(G, other.avoid_input,
                                                      AvoidRadiusKm, geocoded),
                      !.pc = "call"]
    /\ UNCHANGED <<leg_dist, inputVars, loopVars, pc, result, metrics, routeVars>>

\* lines 83-106 in the second call
OtherEnter ==
    /\ other.pc = "call"
    /\ other' =
         IF other.start_node \notin G.nodes \/ other.end_node \notin G.nodes
         THEN [other EXCEPT !.result = [path |-> NonePath, cost |-> Inf, raised |-> FALSE],
                            !.pc = "done"]
         ELSE [other EXCEPT !.locals = InitialLocals(other.start_node, other.end_node),
                            !.pc = "loop"]
    /\ UNCHANGED <<leg_dist, inputVars, loopVars, pc, result, metrics, routeVars>>

\* lines 108-110 in the second call
OtherLoopTest ==
    /\ other.pc = "loop"
    /\ other' = [other EXCEPT !.pc = IF RoundContinues(other.locals) THEN "fwd" ELSE "ret"]
    /\ UNCHANGED <<leg_dist, inputVars, loopVars, pc, result, metrics, routeVars>>

\* lines 113-134 in the second call
OtherForward ==
    /\ other.pc = "fwd"
    /\ other' = [other EXCEPT
                   !.locals = StepForward(G, other.weight, OtherExclusion(other),
                                          other.locals),
                   !.pc = "bwd"]
    /\ UNCHANGED <<leg_dist, inputVars, loopVars, pc, result, metrics, routeVars>>

\* lines 137-156 in the second call
OtherBackward ==
    /\ other.pc = "bwd"
    /\ other' = [other EXCEPT
                   !.locals = StepBackward(G, other.weight, OtherExclusion(other),
                                           other.locals),
                   !.pc = "loop"]
    /\ UNCHANGED <<leg_dist, inputVars, loopVars, pc, result, metrics, routeVars>>

\* line 158 in the second call
OtherReturn ==
    /\ other.pc = "ret"
    /\ other' = [other EXCEPT
                   !.result = ReconstructPath(other.locals.parent_f, other.locals.parent_b,
                                              other.locals.meeting_node, other.locals.mu),
                   !.pc = "done"]
    /\ UNCHANGED <<leg_dist, inputVars, loopVars, pc, result, metrics, routeVars>>

\* get_path_metrics (lines 160-174) in the second call
OtherMetrics ==
    /\ other.pc = "done"
    /\ other.result.path # NonePath
    /\ other' = [other EXCEPT !.metrics = GetPathMetrics(G, other.result.path),
                              !.pc = "measured"]
    /\ UNCHANGED <<leg_dist, inputVars, loopVars, pc, result, metrics, routeVars>>

----------------------------------------------------------------------------
(* The search on its own: every graph, start, end, weight field and        *)
(* exclusion set of the model, and the example graph from A to D.          *)

Init ==
    /\ \/ /\ G \in Graphs
          /\ start_node \in StartChoices
          /\ end_node \in EndChoices
          /\ weight \in WeightFields
          /\ avoid_nodes \in AvoidChoices
          \* a call on a node the graph does not hold returns at line 87,
          \* before the weight or the exclusion set is read
          /\ (start_node = Absent \/ end_node = Absent) =>
                (weight = "travel_time" /\ avoid_nodes \in {{}, Nodes})
       \/ /\ G = ExampleGraph
          /\ start_node = Node("A")
          /\ end_node = Node("D")
          /\ weight = "length"
          /\ avoid_nodes \in ExampleAvoidChoices
    /\ q_f = {} /\ q_b = {}
    /\ dist_f = EmptyMap /\ dist_b = EmptyMap
    /\ parent_f = EmptyMap /\ parent_b = EmptyMap
    /\ visited_f = {} /\ visited_b = {}
    /\ mu = Inf /\ meeting_node = NoNode
    /\ pc = "call"
    /\ result = NoResult
    /\ metrics = NoMetrics
    /\ rpc = "none"
    /\ start_input = "" /\ end_input = "" /\ avoid_input = ""
    /\ start_pt = NoPoint /\ end_pt = NoPoint
    /\ start_geocode_info = Unbound /\ dest_geocode_info = Unbound
    /\ calls = {} /\ failed = {}
    /\ route_error = NoError
    /\ results = << >>
    /\ json_output = NoJson
    /\ segment_dist = 0 /\ step_count = 1
    /\ current_city_name = "" /\ final_city_name = ""
    /\ seg_i = 0
    /\ season_raining = FALSE /\ api_key = NoKey
    /\ response = NoResponse
    /\ other = IdleOther
    /\ leg_dist = EmptyMap

Next == Enter \/ LoopTest \/ Forward \/ Backward \/ Return \/ Metrics

Spec == Init /\ [][Next]_vars

\* A request to calculate_route, from its arguments to the result of the
\* search.
InitRoute ==
    /\ G = NoGraph
    /\ start_node = NoNode /\ end_node = NoNode
    /\ weight = "travel_time"
    /\ avoid_nodes = {}
    /\ q_f = {} /\ q_b = {}
    /\ dist_f = EmptyMap /\ dist_b = EmptyMap
    /\ parent_f = EmptyMap /\ parent_b = EmptyMap
    /\ visited_f = {} /\ visited_b = {}
    /\ mu = Inf /\ meeting_node = NoNode
    /\ pc = "idle"
    /\ result = NoResult
    /\ metrics = NoMetrics
    /\ rpc = "validate"
    /\ start_input \in PlaceInputs
    /\ end_input \in PlaceInputs
    /\ avoid_input \in AvoidInputs
    /\ start_pt = NoPoint /\ end_pt = NoPoint
    /\ start_geocode_info = Unbound /\ dest_geocode_info = Unbound
    /\ calls = {} /\ failed = {}
    /\ route_error = NoError
    /\ results = << >>
    /\ json_output = NoJson
    /\ segment_dist = 0 /\ step_count = 1
    /\ current_city_name = "" /\ final_city_name = ""
    /\ seg_i = 0
    /\ season_raining = FALSE /\ api_key = NoKey
    /\ response = NoResponse
    /\ other = IdleOther
    /\ leg_dist = EmptyMap

NextRoute ==
    \/ Validate \/ LoadGraph \/ Geocode \/ ReverseGeocode \/ CheckRegion
    \/ NearestNodes \/ Avoid \/ CallSearch
    \/ Enter \/ LoopTest \/ Forward \/ Backward \/ Return
    \/ AfterSearch \/ Resolve \/ Walk \/ Assemble \/ Respond

RouteSpec == InitRoute /\ [][NextRoute]_vars

\* The calls by travel_time, the weight calculate_route searches by (line
\* 296), on every graph, start, end and exclusion set of Init; a road without
\* a travel time weighs inf.
FairInit == Init /\ weight = "travel_time"

\* The loop body is taken whenever it is enabled.
FairSpec == FairInit /\ [][Next]_vars /\ WF_vars(Next)

\* Two calls at once on one graph.  The graphs keep the road 1 -> 2 and the
\* way back 4 -> 1; the first call searches from 1 to 4, the second computes
\* its exclusion set around a town and searches between the same towns or
\* round from 1 to 1.
SharedGraphs ==
    {g \in Graphs : /\ g.data[<<1, 2>>] = ShortRoad
                    /\ g.data[<<2, 4>>] # NoEdge
                    /\ g.data[<<2, 3>>] = NoEdge
                    /\ g.data[<<4, 1>>] = LongRoad}
SharedAvoidChoices == {{}, {2}, {3}}

InitShared ==
    /\ G \in SharedGraphs
    /\ start_node = 1
    /\ end_node = 4
    /\ weight \in WeightFields
    /\ avoid_nodes \in SharedAvoidChoices
    /\ q_f = {} /\ q_b = {}
    /\ dist_f = EmptyMap /\ dist_b = EmptyMap
    /\ parent_f = EmptyMap /\ parent_b = EmptyMap
    /\ visited_f = {} /\ visited_b = {}
    /\ mu = Inf /\ meeting_node = NoNode
    /\ pc = "call"
    /\ result = NoResult
    /\ metrics = NoMetrics
    /\ rpc = "none"
    /\ start_input = "" /\ end_input = "" /\ avoid_input = ""
    /\ start_pt = NoPoint /\ end_pt = NoPoint
    /\ start_geocode_info = Unbound /\ dest_geocode_info = Unbound
    /\ calls = {} /\ failed = {}
    /\ route_error = NoError
    /\ results = << >>
    /\ json_output = NoJson
    /\ segment_dist = 0 /\ step_count = 1
    /\ current_city_name = "" /\ final_city_name = ""
    /\ seg_i = 0
    /\ season_raining = FALSE /\ api_key = NoKey
    /\ response = NoResponse
    /\ \E e \in {1, 4}, w \in WeightFields :
          other = [IdleOther EXCEPT !.pc = "avoid", !.start_node = 1, !.end_node = e,
                                    !.weight = w, !.avoid_input = "Bohicon"]
    /\ leg_dist = EmptyMap

NextShared ==
    \/ Enter \/ LoopTest \/ Forward \/ Backward \/ Return \/ Metrics
    \/ OtherAvoid \/ OtherEnter \/ OtherLoopTest \/ OtherForward \/ OtherBackward
    \/ OtherReturn \/ OtherMetrics

SharedSpec == InitShared /\ [][NextShared]_vars

----------------------------------------------------------------------------
(* Ground truth, written independently of the search.                      *)

\* weight of the step u -> v under field w: the least value of the field
\* over the parallel variants, a variant without the field counting as Inf
StepWeight(g, u, v, w) ==
    LET data == g.data[<<u, v>>]
    IN Min({IF data[i][w] = Missing THEN Inf ELSE data[i][w] : i \in DOMAIN data})

\* k rounds of Bellman-Ford over the nodes of `allowed`
RECURSIVE BellmanFord(_, _, _, _, _)
BellmanFord(g, w, allowed, d, k) ==
    IF k = 0 THEN d
    ELSE BellmanFord(g, w, allowed,
            [v \in allowed |->
                Min({d[v]} \cup
                    {IF d[u] >= Inf \/ StepWeight(g, u, v, w) >= Inf
                     THEN Inf ELSE d[u] + StepWeight(g, u, v, w) :
                     u \in {x \in allowed : g.data[<<x, v>>] # << >>}})],
            k - 1)

\* least cost of a path s -> e that uses none of the nodes of `avoid`
TrueCost(g, s, e, w, avoid) ==
    LET allowed == g.nodes \ avoid
    IN IF s \notin allowed \/ e \notin allowed THEN Inf
       ELSE BellmanFord(g, w, allowed,
                        [v \in allowed |-> IF v = s THEN 0 ELSE Inf],
                        Cardinality(allowed))[e]

Returned == pc \in {"done", "measured"}
NodesPresent == start_node \in G.nodes /\ end_node \in G.nodes
FoundPath == Returned /\ result.path # NonePath

\* The stepwise search and the search as a function return the same value.
StepwiseAgreesWithFunction ==
    pc = "done" =>
        result = BidirectionalDijkstra(G, start_node, end_node, weight, avoid_nodes)

\* sum of the numbers of a sequence
RECURSIVE SumSeq(_)
SumSeq(s) == IF s = << >> THEN 0 ELSE Head(s) + SumSeq(Tail(s))

\* sum over the consecutive pairs of a path of the least length of the pair
SumMinLength(path) ==
    SumSeq([i \in 1..(Len(path) - 1) |-> StepWeight(G, path[i], path[i + 1], "length")])

----------------------------------------------------------------------------
(* Claims about the search.                                                *)

\* C1: the cost bidirectional_dijkstra returns is the least cost of a path
\* from start to end over non-excluded nodes (weight of a step: the least
\* value of the selected field over its parallel variants, Inf when absent).
\* Violated when start = end: the search has no short circuit (see C2).
OptimalCost ==
    (Returned /\ NodesPresent) =>
        result.cost = TrueCost(G, start_node, end_node, weight, avoid_nodes)

\* The same statement for distinct endpoints, which the search satisfies.
OptimalCostDistinctEndpoints ==
    (Returned /\ NodesPresent /\ start_node # end_node) =>
        result.cost = TrueCost(G, start_node, end_node, weight, avoid_nodes)

\* C2: for start = end in the graph the search returns the path [start]
\* with cost 0, whatever the exclusion set.
SameNodeShortCircuit ==
    (Returned /\ NodesPresent /\ start_node = end_node) =>
        (result.path = <<start_node>> /\ result.cost = 0)

\* C3: no node of a returned path, except possibly its first and its last,
\* is in the exclusion set.
InteriorNotExcluded ==
    FoundPath =>
        \A i \in 2..(Len(result.path) - 1) : result.path[i] \notin avoid_nodes

\* witness of C3: the exclusion set forced a detour of three nodes or more
\* that costs more than the best unrestricted path
DetourAroundExcluded ==
    /\ FoundPath
    /\ Len(result.path) >= 3
    /\ avoid_nodes # {}
    /\ TrueCost(G, start_node, end_node, weight, {}) < result.cost

\* C4: when no path joins start to end once the excluded nodes are removed
\* the search returns (None, inf) without raising, and in every result the
\* path is None exactly when the cost is inf.
NoPathResult ==
    Returned =>
        /\ ~result.raised
        /\ (result.path = NonePath) <=> (result.cost = Inf)
        /\ (NodesPresent
            /\ TrueCost(G, start_node, end_node, weight, avoid_nodes) = Inf)
           => (result.path = NonePath /\ result.cost = Inf)

\* witness of C4: the exclusion set, not the graph, disconnects the endpoints
CutByExclusion ==
    /\ Returned
    /\ result.path = NonePath
    /\ NodesPresent
    /\ start_node \notin avoid_nodes /\ end_node \notin avoid_nodes
    /\ TrueCost(G, start_node, end_node, weight, {}) < Inf

NodeNotFoundIsDistinct ==
    (Returned /\ ~NodesPresent) =>
        /\ visited_f = {} /\ visited_b = {} /\ q_f = {} /\ q_b = {}
        /\ result # ReconstructPath(EmptyMap, EmptyMap, NoNode, Inf)

\* C7 as stated: the distance of get_path_metrics is the sum of the least
\* lengths of the steps of the path.
MetricsDistanceIsMinLength ==
    pc = "measured" => metrics.total_dist = SumMinLength(result.path)

\* length (0 when absent) of the first variant of u -> v, in key order,
\* whose travel_time (inf when absent) is least
FastestVariantLength(u, v) ==
    LET data == G.data[<<u, v>>]
        tt(i) == IF data[i].travel_time = Missing THEN Inf ELSE data[i].travel_time
        k == Min({i \in DOMAIN data : \A j \in DOMAIN data : tt(i) <= tt(j)})
    IN IF data[k].length = Missing THEN 0 ELSE data[k].length

SingleVariantSteps(path) ==
    \A i \in 1..(Len(path) - 1) : Len(G.data[<<path[i], path[i + 1]>>]) = 1

SumFastestVariantLength(path) ==
    SumSeq([i \in 1..(Len(path) - 1) |-> FastestVariantLength(path[i], path[i + 1])])

\* C7 amended: the distance is the sum over the steps of the length of the
\* fastest variant; it is never below the sum of the least lengths and
\* equals it on a path without parallel variants.
MetricsDistanceIsFastestVariantLength ==
    pc = "measured" =>
        /\ metrics.total_dist = SumFastestVariantLength(result.path)
        /\ metrics.total_dist >= SumMinLength(result.path)
        /\ SingleVariantSteps(result.path) =>
               metrics.total_dist = SumMinLength(result.path)

\* witness of C7: a path found by length whose metrics were taken over a
\* step with parallel variants of different lengths
MeasuredOverParallelRoads ==
    /\ pc = "measured"
    /\ weight = "length"
    /\ \E i \in 1..(Len(result.path) - 1) :
          G.data[<<result.path[i], result.path[i + 1]>>] = ParallelRoads
    /\ metrics.total_dist > SumMinLength(result.path)

----------------------------------------------------------------------------
(* Claims about calculate_route.                                           *)

\* the two place names are the same, letter case apart
CaseVariants == {{"Cotonou", "COTONOU"}}
SameNameRequested ==
    \/ start_input = end_input
    \/ \E c \in CaseVariants : start_input \in c /\ end_input \in c

\* the two place names denote the same place: the same name, letter case
\* apart, or two names of one point of the geocoder
SamePlaceRequested ==
    \/ SameNameRequested
    \/ /\ start_input \in KnownPlaces
       /\ end_input \in KnownPlaces
       /\ PointOf(start_input) = PointOf(end_input)

\* the request was rejected by line 243 before the graph was loaded and
\* before any geocoding, and the search was not called
RejectedBeforeAnyCall ==
    /\ rpc \in {"validate", "raised"}
    /\ calls = {}
    /\ G = NoGraph /\ start_pt = NoPoint /\ end_pt = NoPoint
    /\ pc = "idle"
    /\ rpc = "raised" =>
           route_error = RouteError("Origine et destination identiques", "")

\* C8: a request whose start and end denote the same place is rejected with
\* a RouteError before the graph is loaded and before any geocoding, and the
\* search is never called.
SamePlaceRejected ==
    (rpc # "none" /\ SamePlaceRequested) => RejectedBeforeAnyCall

\* what the code does for the same place: a request whose two names are equal,
\* letter case apart, is rejected before any call
SameNameRejected ==
    (rpc # "none" /\ SameNameRequested) => RejectedBeforeAnyCall

\* the same place typed in two ways that differ in letter case was rejected
SamePlaceTwoSpellingsRejected ==
    /\ rpc = "raised"
    /\ start_input # end_input
    /\ SameNameRequested
    /\ route_error.message = "Origine et destination identiques"

\* the same place under two names was searched from a node to itself
SamePlaceSearched ==
    /\ start_input = "Cotonou" /\ end_input = "Cotonou, Benin"
    /\ "bidirectional_dijkstra" \in calls
    /\ start_node = end_node
    /\ pc = "done"

StartOutside == start_geocode_info.bound /\ start_geocode_info.cc # "BJ"
DestOutside == dest_geocode_info.bound /\ dest_geocode_info.cc # "BJ"

\* C9: when the start or the end resolves to a country code other than BJ
\* the request ends with a RouteError, neither the exclusion filter nor the
\* search is run, and the start is reported when both are outside.
OutsideRegionRejected ==
    (StartOutside \/ DestOutside) =>
        /\ rpc \in {"region", "raised"}
        /\ "get_nodes_to_avoid" \notin calls
        /\ "bidirectional_dijkstra" \notin calls
        /\ pc = "idle"
        /\ rpc = "raised" =>
              /\ route_error.raised
              /\ (StartOutside /\ dest_geocode_info.bound)
                    => route_error.message = "Depart incorrect"
              /\ (DestOutside /\ start_geocode_info.bound /\ ~StartOutside)
                    => route_error.message = "Destination hors zone"

\* witness of C9: both places are outside and the start was reported
BothOutsideStartReported ==
    /\ rpc = "raised"
    /\ StartOutside /\ DestOutside
    /\ route_error.message = "Depart incorrect"

\* C10: when rg.search fails on the start or on the end point the request
\* ends with a RouteError ("Lieu introuvable") and the search is never run.
ReverseGeocodeFailureRejected ==
    ("rg.search" \in failed) =>
        /\ rpc \in {"region", "raised"}
        /\ "bidirectional_dijkstra" \notin calls
        /\ pc = "idle"
        /\ rpc = "raised" => route_error = RouteError("Lieu introuvable", "UnboundLocalError")

\* witness of C10: the lookup of the end point failed after the start point
\* was found in the covered country, and the request was rejected
DestLookupFailedRejected ==
    /\ rpc = "raised"
    /\ "rg.search" \in failed
    /\ start_geocode_info.bound /\ start_geocode_info.cc = "BJ"
    /\ ~dest_geocode_info.bound
    /\ route_error.message = "Lieu introuvable"

\* what line 296 computes for the same request without an avoid place
SearchWithoutAvoidPlace ==
    BidirectionalDijkstra(G, NearestNode(G, start_pt), NearestNode(G, end_pt),
                          "travel_time", {})

AvoidGeocodeFailed == "avoid geocode" \in failed

\* C11: when the geocoding of the avoid place fails, get_nodes_to_avoid returns
\* the empty set and raises nothing (the request goes on to the search), and
\* the search returns what it returns for the same request without an avoid
\* place: the same path, or no path in both.
AvoidFailureMeansNoExclusion ==
    AvoidGeocodeFailed =>
        /\ avoid_nodes = {}
        /\ rpc = "raised" => route_error.message = "Aucun chemin trouve"
        /\ (pc \in {"done", "returned"}) => result = SearchWithoutAvoidPlace

\* a request whose avoid place is a known town on the returned path, the
\* lookup of which failed
FailedAvoidPlaceOnPath ==
    /\ AvoidGeocodeFailed
    /\ avoid_input = "Bohicon"
    /\ pc = "returned"
    /\ result.path # NonePath
    /\ \E k \in DOMAIN result.path :
          result.path[k] \in NodesWithin(G, PointOf("Bohicon"), AvoidRadiusKm)

----------------------------------------------------------------------------
(* Claims about the legs and the answer.                                   *)

LateCollaboratorFailed == failed \cap {"rg.search(coords)", "translate"} # {}

\* C12: once the search has found a path, a failure of a collaborator called
\* afterwards (the batch reverse geocoding of the path, a translation) never
\* makes calculate_route fail: the request still returns a result.
LateFailureAbsorbed ==
    LateCollaboratorFailed => rpc \notin {"crashed", "raised"}

\* The part of C12 that the code keeps: a failed translation leaves the text
\* untranslated and the request returns its result.
TranslationFailureAbsorbed ==
    ("translate" \in failed /\ "rg.search(coords)" \notin failed) =>
        /\ rpc = "result"
        /\ json_output.season.text \in {"Saison des Pluies", "Saison Seche"}
        /\ {json_output.season.lang, json_output.info_sup.lang} \cap {"fr"} # {}

\* the iteration about to run, and the resolution of the node it moves to
Walking == rpc = "walk" /\ seg_i < Len(result.path) - 1
NextRes == results[seg_i + 2]
\* the least length over the variants of the step u -> v, a variant without
\* a length counting 0 (line 328)
LeastLength(g, u, v) ==
    LET data == GetEdgeData(g, u, v)
    IN Min({Get(data[k], "length", 0) : k \in DOMAIN data})

NextEdgeMinLength ==
    LeastLength(G, result.path[seg_i + 1], result.path[seg_i + 2])

\* the iteration about to run moves to a node of the country whose name
\* differs from the current one and is the final destination name
ReachesFinalName ==
    /\ Walking
    /\ NextRes.cc = "BJ"
    /\ NextRes.name # current_city_name
    /\ NextRes.name = final_city_name

\* the current name became the final destination name during the walk
FinalNameReached ==
    /\ rpc = "walk"
    /\ current_city_name = final_city_name
    /\ results[1].name # final_city_name

\* C13: when the name of the next node differs from the current name and is
\* the final destination name, no intermediate leg is emitted, and the
\* distance accumulated so far stays for the destination leg: no leg emitted
\* later takes it.
FinalNameFoldsIntoDestination ==
    [][/\ ReachesFinalName =>
             /\ json_output' = json_output
             /\ segment_dist' = segment_dist + NextEdgeMinLength
       /\ FinalNameReached => json_output'.steps = json_output.steps]_vars

\* The part of C13 that the code keeps: reaching the final destination name
\* emits no leg and keeps the accumulated distance.
FinalNameEmitsNoLeg ==
    [][ReachesFinalName =>
          /\ json_output' = json_output
          /\ step_count' = step_count
          /\ segment_dist' = segment_dist + NextEdgeMinLength]_vars

\* C14: a node of the path resolved outside BJ never causes a leg to be
\* emitted and never changes the current place name, and the length of the
\* edge leading to it is added to the running segment distance.
OutsideNodeOnlyAccumulates ==
    [][(Walking /\ NextRes.cc # "BJ") =>
          /\ json_output' = json_output
          /\ step_count' = step_count
          /\ current_city_name' = current_city_name
          /\ segment_dist' = segment_dist + NextEdgeMinLength]_vars

\* the walk has just passed a node outside BJ whose name is neither the
\* current one nor the final one
PassedOutsideNode ==
    /\ rpc = "walk"
    /\ seg_i >= 1
    /\ results[seg_i + 1].cc # "BJ"
    /\ results[seg_i + 1].name \notin {current_city_name, final_city_name}
    /\ segment_dist > 0

\* The legs as a function of the node path, the edge data and the resolution
\* of the nodes alone: the state of the walk after k steps of the path.
RECURSIVE LegsAfter(_, _, _, _)
LegsAfter(g, path, res, k) ==
    IF k = 0
    THEN [steps |-> EmptyMap, segment_dist |-> 0, step_count |-> 1,
          current_city_name |-> res[1].name]
    ELSE LET before == LegsAfter(g, path, res, k - 1)
             dist == before.segment_dist + LeastLength(g, path[k], path[k + 1])
             next == res[k + 1]
         IN IF next.cc # "BJ" \/ next.name = before.current_city_name
            THEN [before EXCEPT !.segment_dist = dist]
            ELSE IF next.name = FinalCityName(res)
            THEN [before EXCEPT !.segment_dist = dist, !.current_city_name = next.name]
            ELSE [steps |-> (before.step_count :>
                               Leg(GetFonCityName(next.name), FormatKm(dist)))
                            @@ before.steps,
                  segment_dist |-> 0,
                  step_count |-> before.step_count + 1,
                  current_city_name |-> next.name]

\* C15: segmentation is deterministic: the legs (names, distances, numbering)
\* and the destination-leg distance of every run are the values of one
\* function of the node path, the edge data and the resolution of the nodes,
\* so two runs on the same three inputs produce the same legs.
SegmentationIsDeterministic ==
    /\ rpc = "walk" =>
          LET legs == LegsAfter(G, result.path, results, seg_i)
          IN /\ json_output.steps = legs.steps
             /\ segment_dist = legs.segment_dist
             /\ step_count = legs.step_count
             /\ current_city_name = legs.current_city_name
    /\ rpc = "result" =>
          LET legs == LegsAfter(G, result.path, results, Len(result.path) - 1)
          IN /\ json_output.steps = legs.steps
             /\ DOMAIN json_output.steps = 1 .. (step_count - 1)
             /\ json_output.destination.km = FormatKm(legs.segment_dist)

\* a result with two legs before the destination, over parallel roads
TwoLegsOverParallelRoads ==
    /\ rpc = "result"
    /\ step_count = 3
    /\ \E k \in 1 .. (Len(result.path) - 1) :
          Len(GetEdgeData(G, result.path[k], result.path[k + 1])) > 1

Answered == response # NoResponse

\* the answer carries the result: every key of the result with its value, and
\* no other key than an avoid_city that is null
CarriesResult(body, json) ==
    /\ json.keys \subseteq body.keys
    /\ body.keys \ json.keys \subseteq {"avoid_city"}
    /\ "avoid_city" \notin json.keys => body.avoid_city = Null
    /\ [body EXCEPT !.keys = json.keys, !.avoid_city = json.avoid_city] = json

\* C16: the POST /route handler answers 200 with the result of calculate_route
\* when it returns, 400 with the message and the details of the error when it
\* raises RouteError, 500 for any other exception, and no other status.
HandlerStatus ==
    Answered =>
        /\ response.status_code \in {200, 400, 500}
        /\ rpc = "result" => /\ response.status_code = 200
                             /\ CarriesResult(response.body, json_output)
        /\ rpc = "raised" => /\ response.status_code = 400
                             /\ response.error = route_error.message
                             /\ response.details = route_error.details
        /\ rpc = "crashed" => response.status_code = 500
        /\ rpc \in {"result", "raised", "crashed"}

\* the request of the test (Cotonou to Parakou, empty avoid string) answered 200
TestRequestAnswered200 ==
    /\ Answered
    /\ start_input = "Cotonou" /\ end_input = "Parakou" /\ avoid_input = ""
    /\ response.status_code = 200
    /\ response.body.keys = {"departure", "destination", "season", "info_sup", "avoid_city"}
    /\ response.body.avoid_city = Null

\* a request answered 400, and one answered 500
SomeRequestAnswered400 == Answered /\ response.status_code = 400
SomeRequestAnswered500 == Answered /\ response.status_code = 500

----------------------------------------------------------------------------
(* Further claims about the search.                                        *)

OnExample ==
    /\ G = ExampleGraph
    /\ start_node = Node("A") /\ end_node = Node("D")
    /\ weight = "length"

\* C17: on the example graph, the search by length from A to D returns the
\* path A-E-D with cost 10 for the empty exclusion set, and the path A-B-C-D
\* with cost 30 when E is excluded.
ExampleGraphResults ==
    (OnExample /\ Returned) =>
        /\ avoid_nodes = {} =>
              /\ result.path = <<Node("A"), Node("E"), Node("D")>>
              /\ result.cost = 10
        /\ avoid_nodes = {Node("E")} =>
              /\ result.path = <<Node("A"), Node("B"), Node("C"), Node("D")>>
              /\ result.cost = 30

\* the search on the example graph returned with E excluded
ExampleReturnedAroundE ==
    /\ OnExample /\ Returned
    /\ avoid_nodes = {Node("E")}
    /\ Len(result.path) = 4

\* the search on the example graph returned with nothing excluded
ExampleReturnedThroughE ==
    /\ OnExample /\ Returned
    /\ avoid_nodes = {}
    /\ Len(result.path) = 3

\* the search is between its initialisation and its return
Searching == pc \in {"loop", "fwd", "bwd", "ret"}

\* the nodes with both a forward and a backward cost, and the least sum
BothKnown == DOMAIN dist_f \cap DOMAIN dist_b
BestMeeting == Min({dist_f[v] + dist_b[v] : v \in BothKnown} \cup {Inf})

MuIsBest ==
    /\ mu = BestMeeting
    /\ BothKnown # {} => /\ meeting_node \in BothKnown
                         /\ dist_f[meeting_node] + dist_b[meeting_node] = mu

\* C18: at every point of the search, after the relaxations of the forward
\* step as after those of the backward step, mu is the least dist_f[v] +
\* dist_b[v] over the nodes v with both costs recorded (+infinity when there
\* is none) and meeting_node is a node that attains it.
MuIsBestMeeting == Searching => MuIsBest

\* C18 holds in every search between two different nodes.
MuIsBestMeetingDistinctEndpoints ==
    (Searching /\ start_node # end_node) => MuIsBest

\* the sum of the two queue heads is >= mu, or a queue is empty
StopCondition ==
    \/ q_f = {}
    \/ q_b = {}
    \/ HeapTop(q_f)[1] + HeapTop(q_b)[1] >= mu

\* C19: the search stops as soon as the stop condition holds: neither the
\* forward step nor the backward step pops or relaxes in a state where the
\* condition already holds.
NoStepOnceStopConditionHolds ==
    pc \in {"fwd", "bwd"} => ~StopCondition

\* C19 as the code has it: the condition is tested once per round, before the
\* forward step.  The forward step never runs in a state where the condition
\* holds; the backward step of the same round then runs on its non-empty
\* queue, whatever the forward step made of the condition; the search returns
\* at the first test that finds the condition true.
StopTestedOncePerRound ==
    /\ pc = "fwd" => ~StopCondition
    /\ pc = "bwd" => q_b # {}
    /\ pc = "ret" => StopCondition

\* the backward step is about to pop although the forward step of the round
\* has made the stop condition true
BackwardStepAfterStopCondition ==
    /\ pc = "bwd"
    /\ start_node # end_node
    /\ q_f # {} /\ q_b # {}
    /\ StopCondition
    /\ HeapTop(q_b)[2] \notin visited_b
    /\ ~Excluded(HeapTop(q_b)[2])

\* sum of the least selected-field weights over the consecutive pairs of a path
SumMinWeight(path) ==
    SumSeq([k \in 1..(Len(path) - 1) |-> StepWeight(G, path[k], path[k + 1], weight)])

\* C20: a returned path begins with start, ends with end, each consecutive
\* pair of it is a directed edge of the graph, the meeting node occurs in it
\* exactly once, and the returned cost is mu and is the sum of the minimum
\* selected-field weights of its consecutive pairs.
PathWellFormed ==
    FoundPath =>
        /\ result.path[1] = start_node
        /\ result.path[Len(result.path)] = end_node
        /\ \A k \in 1..(Len(result.path) - 1) :
              HasEdge(G, result.path[k], result.path[k + 1])
        /\ Cardinality({k \in DOMAIN result.path : result.path[k] = meeting_node}) = 1
        /\ result.cost = mu
        /\ result.cost = SumMinWeight(result.path)

\* a returned path of four nodes that met at an interior node
FourNodePathMetInside ==
    /\ FoundPath
    /\ G \in Graphs
    /\ Len(result.path) = 4
    /\ meeting_node \notin {start_node, end_node}
    /\ Len(GetEdgeData(G, result.path[1], result.path[2])) > 1

----------------------------------------------------------------------------
(* Claims about calls that run at the same time.                           *)

\* the results of each call are those of the call run alone on the graph
ResultsAsAlone ==
    /\ Returned =>
          result = BidirectionalDijkstra(G, start_node, end_node, weight, avoid_nodes)
    /\ pc = "measured" => metrics = GetPathMetrics(G, result.path)
    /\ other.pc \in {"done", "measured"} =>
          other.result = BidirectionalDijkstra(G, other.start_node, other.end_node,
                                               other.weight, other.avoid_nodes)
    /\ other.pc = "measured" => other.metrics = GetPathMetrics(G, other.result.path)

\* no step of either call writes the graph or an exclusion set that a call
\* has been given
ArgumentsUntouched ==
    /\ G' = G
    /\ avoid_nodes' = avoid_nodes
    /\ other.pc # "avoid" => other'.avoid_nodes = other.avoid_nodes

\* C21: bidirectional_dijkstra, get_path_metrics and get_nodes_to_avoid leave
\* the graph and the exclusion set of the caller as they were, and two calls
\* whose steps interleave in any order on one graph, each with its own queues,
\* cost maps and exclusion set, return what each returns when run alone.
InterleavedCallsDoNotInterfere ==
    []ResultsAsAlone /\ [][ArgumentsUntouched]_vars

\* both calls have returned a path, each around its own exclusion set
BothReturnedWithOwnExclusion ==
    /\ pc = "measured"
    /\ other.pc = "measured"
    /\ avoid_nodes # other.avoid_nodes
    /\ result.path # other.result.path

----------------------------------------------------------------------------
(* Claims about excluded endpoints.                                        *)

EndpointExcluded == start_node \in avoid_nodes \/ end_node \in avoid_nodes

\* C22: when the start node or the end node is in the exclusion set, the
\* search returns the no-path result whatever the graph; so a returned path
\* contains no excluded node, its endpoints included, and no excluded node is
\* ever expanded or given a cost by a relaxation (the only costs an excluded
\* node can hold are the initial ones of the two endpoints).
ExcludedEndpointMeansNoPath ==
    /\ (Returned /\ EndpointExcluded) =>
          /\ result.path = NonePath
          /\ result.cost = Inf
          /\ ~result.raised
    /\ FoundPath => \A k \in DOMAIN result.path : result.path[k] \notin avoid_nodes
    /\ (Searching \/ Returned) =>
          /\ (visited_f \cup visited_b) \cap avoid_nodes = {}
          /\ (DOMAIN dist_f \ {start_node}) \cap avoid_nodes = {}
          /\ (DOMAIN dist_b \ {end_node}) \cap avoid_nodes = {}

\* a search between two different nodes that a path joins returned with its
\* start node excluded, after rounds of the loop
ReturnedWithStartExcluded ==
    /\ pc = "done"
    /\ NodesPresent
    /\ start_node # end_node
    /\ avoid_nodes = {start_node}
    /\ TrueCost(G, start_node, end_node, weight, {}) < Inf
    /\ DOMAIN dist_b # {end_node}

----------------------------------------------------------------------------
(* Claims about the accounting of the legs.                                *)

\* sum of the minimum edge lengths over the first k steps of the path
PrefixMinLength(k) ==
    SumSeq([n \in 1..k |-> LeastLength(G, result.path[n], result.path[n + 1])])

\* sum of the distances leg_dist[1], ..., leg_dist[k]
EmittedDistance == SumSeq([n \in 1..(step_count - 1) |-> leg_dist[n]])

\* C23: after every iteration of the segmentation loop, the distances of the
\* legs emitted so far plus the running segment distance add up to the sum of
\* the minimum edge lengths over the part of the path walked so far; at the
\* end the step distances plus the destination-leg distance add up to the
\* minimum-length total of the whole path; the steps are numbered step_1 to
\* step_k with no gap.  The distance of a leg is the accumulated distance it
\* was emitted with, which its text shows rounded to 0.1 km.
LegDistancesAddUp ==
    /\ rpc = "walk" =>
          /\ EmittedDistance + segment_dist = PrefixMinLength(seg_i)
          /\ DOMAIN json_output.steps = 1..(step_count - 1)
          /\ DOMAIN leg_dist = 1..(step_count - 1)
          /\ \A n \in DOMAIN leg_dist : json_output.steps[n].km = FormatKm(leg_dist[n])
    /\ rpc = "result" =>
          /\ EmittedDistance + segment_dist = PrefixMinLength(Len(result.path) - 1)
          /\ DOMAIN json_output.steps = 1..(step_count - 1)
          /\ json_output.destination.km = FormatKm(segment_dist)

\* a result with two legs and a destination leg, each of a distance of its own
TwoLegsAndDestinationAddUp ==
    /\ rpc = "result"
    /\ step_count = 3
    /\ segment_dist > 0
    /\ leg_dist[1] > 0 /\ leg_dist[2] > 0
    /\ Len(result.path) = 4

----------------------------------------------------------------------------
(* The copies of the search: bidirectional_dijkstra_benin.py and           *)
(* sauv/bidirectional_dijkstra_osmnx.py.  Both use heapq and the graph as  *)
(* core.py does.                                                           *)

\* bidirectional_dijkstra_benin.py, lines 132-150
BeninReconstructPath(pf, pb, meeting, total_val) ==
    IF meeting = NoNode THEN [path |-> NonePath, cost |-> Inf, raised |-> FALSE]
    ELSE IF ~ChainOk(pf, meeting, Cardinality(DOMAIN pf) + 1)
            \/ meeting \notin DOMAIN pb
            \/ ~ChainOk(pb, pb[meeting], Cardinality(DOMAIN pb) + 1)
         THEN [path |-> NonePath, cost |-> Inf, raised |-> TRUE]
    ELSE LET path_f == Reverse(Chain(pf, meeting))
             path_b == Chain(pb, pb[meeting])
         IN [path |-> path_f \o path_b, cost |-> total_val, raised |-> FALSE]

\* bidirectional_dijkstra_benin.py, lines 64-77
BeninInitialLocals(s, e) ==
    [q_f |-> {<<0, s>>}, q_b |-> {<<0, e>>},
     dist_f |-> (s :> 0), dist_b |-> (e :> 0),
     parent_f |-> (s :> NoNode), parent_b |-> (e :> NoNode),
     visited_f |-> {}, visited_b |-> {},
     mu |-> Inf, meeting_node |-> NoNode]

\* bidirectional_dijkstra_benin.py, lines 79-81
BeninRoundContinues(st) ==
    /\ st.q_f # {}
    /\ st.q_b # {}
    /\ ~(HeapTop(st.q_f)[1] + HeapTop(st.q_b)[1] >= st.mu)

\* bidirectional_dijkstra_benin.py, lines 84-106
BeninStepForward(g, w, avoid, st) ==
    IF st.q_f = {} THEN st
    ELSE LET d_u == HeapTop(st.q_f)[1]
             u == HeapTop(st.q_f)[2]
         IN IF u \in st.visited_f \/ u \in avoid
            THEN [st EXCEPT !.q_f = HeapPop(st.q_f)]
            ELSE LET new == [v \in g.nodes |-> Plus(d_u, MinWeight(g, u, v, w))]
                     improved == {v \in g.nodes : /\ HasEdge(g, u, v)
                                                  /\ v \notin avoid
                                                  /\ new[v] < DistGet(st.dist_f, v)}
                     meet == {v \in improved : v \in DOMAIN st.dist_b}
                     new_mu == Min({new[v] + st.dist_b[v] : v \in meet} \cup {st.mu})
                 IN [q_f |-> HeapPush(HeapPop(st.q_f), {<<new[v], v>> : v \in improved}),
                     q_b |-> st.q_b,
                     dist_f |-> [v \in DOMAIN st.dist_f \cup improved |->
                                   IF v \in improved THEN new[v] ELSE st.dist_f[v]],
                     dist_b |-> st.dist_b,
                     parent_f |-> [v \in DOMAIN st.parent_f \cup improved |->
                                     IF v \in improved THEN u ELSE st.parent_f[v]],
                     parent_b |-> st.parent_b,
                     visited_f |-> st.visited_f \cup {u},
                     visited_b |-> st.visited_b,
                     mu |-> new_mu,
                     meeting_node |->
                         IF new_mu < st.mu
                         THEN FirstNeighbor(g, u, {v \in meet : new[v] + st.dist_b[v] = new_mu})
                         ELSE st.meeting_node]

\* bidirectional_dijkstra_benin.py, lines 109-128
BeninStepBackward(g, w, avoid, st) ==
    IF st.q_b = {} THEN st
    ELSE LET d_v == HeapTop(st.q_b)[1]
             v == HeapTop(st.q_b)[2]
         IN IF v \in st.visited_b \/ v \in avoid
            THEN [st EXCEPT !.q_b = HeapPop(st.q_b)]
            ELSE LET new == [u \in g.nodes |-> Plus(d_v, MinWeight(g, u, v, w))]
                     improved == {u \in g.nodes : /\ HasEdge(g, u, v)
                                                  /\ u \notin avoid
                                                  /\ new[u] < DistGet(st.dist_b, u)}
                     meet == {u \in improved : u \in DOMAIN st.dist_f}
                     new_mu == Min({st.dist_f[u] + new[u] : u \in meet} \cup {st.mu})
                 IN [q_f |-> st.q_f,
                     q_b |-> HeapPush(HeapPop(st.q_b), {<<new[u], u>> : u \in improved}),
                     dist_f |-> st.dist_f,
                     dist_b |-> [u \in DOMAIN st.dist_b \cup improved |->
                                   IF u \in improved THEN new[u] ELSE st.dist_b[u]],
                     parent_f |-> st.parent_f,
                     parent_b |-> [u \in DOMAIN st.parent_b \cup improved |->
                                     IF u \in improved THEN v ELSE st.parent_b[u]],
                     visited_f |-> st.visited_f,
                     visited_b |-> st.visited_b \cup {v},
                     mu |-> new_mu,
                     meeting_node |->
                         IF new_mu < st.mu
                         THEN FirstPredecessor(g, v, {u \in meet : st.dist_f[u] + new[u] = new_mu})
                         ELSE st.meeting_node]

\* bidirectional_dijkstra_benin.py, lines 79-128
RECURSIVE BeninRunRounds(_, _, _, _)
BeninRunRounds(g, w, avoid, st) ==
    IF BeninRoundContinues(st)
    THEN BeninRunRounds(g, w, avoid, BeninStepBackward(g, w, avoid, BeninStepForward(g, w, avoid, st)))
    ELSE st

\* bidirectional_dijkstra_benin.py, lines 45-130: what a call returns
BidirectionalDijkstraBenin(g, s, e, w, avoid) ==
    IF s \notin g.nodes \/ e \notin g.nodes
    THEN [path |-> NonePath, cost |-> Inf, raised |-> FALSE]
    ELSE LET st == BeninRunRounds(g, w, avoid, BeninInitialLocals(s, e))
         IN BeninReconstructPath(st.parent_f, st.parent_b, st.meeting_node, st.mu)

\* sauv/bidirectional_dijkstra_osmnx.py, lines 152-172
OsmnxReconstructPath(pf, pb, meeting, total_val) ==
    IF meeting = NoNode THEN [path |-> NonePath, cost |-> Inf, raised |-> FALSE]
    ELSE IF ~ChainOk(pf, meeting, Cardinality(DOMAIN pf) + 1)
            \/ meeting \notin DOMAIN pb
            \/ ~ChainOk(pb, pb[meeting], Cardinality(DOMAIN pb) + 1)
         THEN [path |-> NonePath, cost |-> Inf, raised |-> TRUE]
    ELSE LET path_f == Reverse(Chain(pf, meeting))
             path_b == Chain(pb, pb[meeting])
         IN [path |-> path_f \o path_b, cost |-> total_val, raised |-> FALSE]

\* sauv/bidirectional_dijkstra_osmnx.py, lines 70-86
OsmnxInitialLocals(s, e) ==
    [q_f |-> {<<0, s>>}, q_b |-> {<<0, e>>},
     dist_f |-> (s :> 0), dist_b |-> (e :> 0),
     parent_f |-> (s :> NoNode), parent_b |-> (e :> NoNode),
     visited_f |-> {}, visited_b |-> {},
     mu |-> Inf, meeting_node |-> NoNode]

\* sauv/bidirectional_dijkstra_osmnx.py, lines 93-95
OsmnxRoundContinues(st) ==
    /\ st.q_f # {}
    /\ st.q_b # {}
    /\ ~(HeapTop(st.q_f)[1] + HeapTop(st.q_b)[1] >= st.mu)

\* Faulty variant of OsmnxWeightField: the copy reads the travel time.
OsmnxWeightFieldTime == "travel_time"

\* sauv/bidirectional_dijkstra_osmnx.py, lines 110 and 136: d.get('length', inf)
OsmnxWeightField == "length"

\* sauv/bidirectional_dijkstra_osmnx.py, lines 98-122
OsmnxStepForward(g, st) ==
    IF st.q_f = {} THEN st
    ELSE LET d_u == HeapTop(st.q_f)[1]
             u == HeapTop(st.q_f)[2]
         IN IF u \in st.visited_f
            THEN [st EXCEPT !.q_f = HeapPop(st.q_f)]
            ELSE LET new == [v \in g.nodes |-> Plus(d_u, MinWeight(g, u, v, OsmnxWeightField))]
                     improved == {v \in g.nodes : /\ HasEdge(g, u, v)
                                                  /\ new[v] < DistGet(st.dist_f, v)}
                     meet == {v \in improved : v \in DOMAIN st.dist_b}
                     new_mu == Min({new[v] + st.dist_b[v] : v \in meet} \cup {st.mu})
                 IN [q_f |-> HeapPush(HeapPop(st.q_f), {<<new[v], v>> : v \in improved}),
                     q_b |-> st.q_b,
                     dist_f |-> [v \in DOMAIN st.dist_f \cup improved |->
                                   IF v \in improved THEN new[v] ELSE st.dist_f[v]],
                     dist_b |-> st.dist_b,
                     parent_f |-> [v \in DOMAIN st.parent_f \cup improved |->
                                     IF v \in improved THEN u ELSE st.parent_f[v]],
                     parent_b |-> st.parent_b,
                     visited_f |-> st.visited_f \cup {u},
                     visited_b |-> st.visited_b,
                     mu |-> new_mu,
                     meeting_node |->
                         IF new_mu < st.mu
                         THEN FirstNeighbor(g, u, {v \in meet : new[v] + st.dist_b[v] = new_mu})
                         ELSE st.meeting_node]

\* sauv/bidirectional_dijkstra_osmnx.py, lines 125-148
OsmnxStepBackward(g, st) ==
    IF st.q_b = {} THEN st
    ELSE LET d_v == HeapTop(st.q_b)[1]
             v == HeapTop(st.q_b)[2]
         IN IF v \in st.visited_b
            THEN [st EXCEPT !.q_b = HeapPop(st.q_b)]
            ELSE LET new == [u \in g.nodes |-> Plus(d_v, MinWeight(g, u, v, OsmnxWeightField))]
                     improved == {u \in g.nodes : /\ HasEdge(g, u, v)
                                                  /\ new[u] < DistGet(st.dist_b, u)}
                     meet == {u \in improved : u \in DOMAIN st.dist_f}
                     new_mu == Min({st.dist_f[u] + new[u] : u \in meet} \cup {st.mu})
                 IN [q_f |-> st.q_f,
                     q_b |-> HeapPush(HeapPop(st.q_b), {<<new[u], u>> : u \in improved}),
                     dist_f |-> st.dist_f,
                     dist_b |-> [u \in DOMAIN st.dist_b \cup improved |->
                                   IF u \in improved THEN new[u] ELSE st.dist_b[u]],
                     parent_f |-> st.parent_f,
                     parent_b |-> [u \in DOMAIN st.parent_b \cup improved |->
                                     IF u \in improved THEN v ELSE st.parent_b[u]],
                     visited_f |-> st.visited_f,
                     visited_b |-> st.visited_b \cup {v},
                     mu |-> new_mu,
                     meeting_node |->
                         IF new_mu < st.mu
                         THEN FirstPredecessor(g, v, {u \in meet : st.dist_f[u] + new[u] = new_mu})
                         ELSE st.meeting_node]

\* sauv/bidirectional_dijkstra_osmnx.py, lines 93-148
RECURSIVE OsmnxRunRounds(_, _)
OsmnxRunRounds(g, st) ==
    IF OsmnxRoundContinues(st)
    THEN OsmnxRunRounds(g, OsmnxStepBackward(g, OsmnxStepForward(g, st)))
    ELSE st

\* sauv/bidirectional_dijkstra_osmnx.py, lines 58-150: what a call returns
BidirectionalDijkstraOsmnx(g, s, e) ==
    IF s \notin g.nodes \/ e \notin g.nodes
    THEN [path |-> NonePath, cost |-> Inf, raised |-> FALSE]
    ELSE IF s = e
    THEN [path |-> <<s>>, cost |-> 0, raised |-> FALSE]
    ELSE LET st == OsmnxRunRounds(g, OsmnxInitialLocals(s, e))
         IN OsmnxReconstructPath(st.parent_f, st.parent_b, st.meeting_node, st.mu)

\* C24: the copies of the search agree.  For every graph, start, end, weight
\* field and exclusion set, bidirectional_dijkstra of core.py and of
\* bidirectional_dijkstra_benin.py return the same path and cost; for a start
\* other than the end, the length weight and an empty exclusion set, both
\* return the path and cost of bidirectional_dijkstra of
\* sauv/bidirectional_dijkstra_osmnx.py.
CopiesOfTheSearchAgree ==
    Returned =>
       /\ result = BidirectionalDijkstraBenin(G, start_node, end_node, weight, avoid_nodes)
       /\ (start_node # end_node /\ weight = "length" /\ avoid_nodes = {}) =>
              /\ result = BidirectionalDijkstraOsmnx(G, start_node, end_node)
              /\ BidirectionalDijkstraBenin(G, start_node, end_node, weight, avoid_nodes)
                    = BidirectionalDijkstraOsmnx(G, start_node, end_node)

\* the three copies were given a graph where the shortest road is not the
\* fastest, and returned a path through a third node
CopiesReturnedShortestNotFastest ==
    /\ pc = "done"
    /\ FoundPath
    /\ start_node # end_node /\ weight = "length" /\ avoid_nodes = {}
    /\ Len(result.path) >= 3
    /\ BidirectionalDijkstra(G, start_node, end_node, "travel_time", {}).path # result.path

\* the excluded node lies on the path the search returns without exclusion
CopiesReturnedAroundExclusion ==
    /\ pc = "done"
    /\ FoundPath
    /\ avoid_nodes # {}
    /\ \E k \in DOMAIN BidirectionalDijkstra(G, start_node, end_node, weight, {}).path :
           BidirectionalDijkstra(G, start_node, end_node, weight, {}).path[k] \in avoid_nodes
============================================================================
